---- MODULE Spec2Model ----
(***************************************************************************)
(* Model of the Numscript intent compiler (src/src/lib/compiler.ts).       *)
(*                                                                         *)
(* The repository holds two variants of the compiler: the first one        *)
(* (lines 1-125) warns about mixed split modes and emits metadata, the     *)
(* second one (lines 127-225) does neither and orders fraction < max <     *)
(* remaining.  Both are modelled; `variant` says which one is loaded.      *)
(*                                                                         *)
(* A JavaScript string is a sequence of one-character strings, so that     *)
(* startsWith, includes, template literals and join are computed, not      *)
(* assumed.  An optional field is a record [some, v]: `some` is FALSE when  *)
(* the field is undefined.                                                 *)
(***************************************************************************)
EXTENDS Integers, Sequences, FiniteSets, TLC

VARIABLES
    variant,   \* 1 or 2: which variant of compiler.ts is loaded
    pc,        \* "idle" | "map" | "returned" | "thrown"
    fn,        \* the function the caller invoked ("" when idle)
    arg,       \* its argument
    idx,       \* compileToNumscript: index (1-based) of the posting Array.map is at
    postings,  \* compileToNumscript: the statements Array.map has produced so far
    ret,       \* the string returned (<<>> until the call returns)
    error,     \* the message of the Error thrown ("" when none)
    console,   \* the console.warn messages written during the call
    calls,     \* concurrent callers: the frame of each one's compileToNumscript call
    \* generate route (POST and validateWithMCP)
    gpc,           \* where the handler is: "idle" | "loop" | "generate" | "validate"
                   \*   | "validated" | "responded"
    attempt,       \* let attempt
    lastError,     \* let lastError (Null | a message)
    currentPrompt, \* let currentPrompt
    lastNumscript, \* let lastNumscript (Undefined | a script)
    current,       \* the intent and numscript of the running attempt
    validation,    \* the promise validateWithMCP returned: what settled it, with what
    sent,          \* the user prompt generateIntent was called with in this attempt
    response,      \* the response of the handler (Null until it answers)
    \* simulate route (POST and computeFinalBalances).  An object is a
    \* reference into heap, so that two names for one object are one object.
    spc,           \* "idle" | "called" | "loop" | "returned" | "responded"
    body,          \* the balances of the request body, as the caller sent them
    balances,      \* const balances / initialBalances: account -> reference
    finalBalances, \* const finalBalances: account -> reference
    heap,          \* reference -> the asset map stored there (asset -> number)
    applied,       \* how many postings the loop has applied
    lastApplied,   \* the posting applied last
    touched,       \* the source and destination accounts of the postings applied
    simResponse,   \* the response of the simulate handler
    \* simulate route (callMCPEvaluate and the child process it speaks to)
    epc,           \* "idle" | "called"
    child,         \* "none" | "running" | "killed" | "failed" | "closed"
    stdin,         \* the messages written to child.stdin, in order
    ended,         \* whether child.stdin.end() was called
    readPos,       \* how many of those messages the child has read
    results,       \* how many tool calls the child has answered
    pipe,          \* what the child wrote to its stdout and no "data" event delivered yet
    stdout,        \* let stdout: the text of all "data" events so far
    timer,         \* whether the 10 s timer is still to fire
    promise        \* the promise callMCPEvaluate returned: what settled it

\* The locals of a direct call of a compiler function.
compilerVars ==
    << pc, fn, arg, idx, postings, ret, error >>

genVars ==
    << gpc, attempt, lastError, currentPrompt, lastNumscript, current, validation,
       sent, response >>

simVars ==
    << spc, body, balances, finalBalances, heap, applied, lastApplied, touched,
       simResponse >>

mcpVars ==
    << epc, child, stdin, ended, readPos, results, pipe, stdout, timer, promise >>

\* What the compiler's own calls leave alone.
notCompiler ==
    << calls, genVars, simVars, mcpVars >>

\* What the concurrent callers leave alone.
notConcurrent ==
    << compilerVars, genVars, simVars, mcpVars >>

\* What the generate route leaves alone.
notGenerate ==
    << compilerVars, calls, simVars, mcpVars >>

\* What the simulate route leaves alone.
notSimulate ==
    << variant, console, compilerVars, calls, genVars, mcpVars >>

\* What callMCPEvaluate and its child leave alone.
notEvaluate ==
    << variant, console, compilerVars, calls, genVars, simVars >>

vars ==
    << variant, console, compilerVars, calls, genVars, simVars, mcpVars >>

(***************************************************************************)
(* Bounds of the model.                                                    *)
(***************************************************************************)
MaxRules ==
    3
MaxPostings ==
    2
MaxMeta ==
    2

(***************************************************************************)
(* String literals of the source.                                          *)
(***************************************************************************)
S_world ==
    << "w", "o", "r", "l", "d" >>
S_at_world ==
    << "@", "w", "o", "r", "l", "d" >>
S_at ==
    << "@" >>
S_unbounded_suffix ==
    << " ", "a", "l", "l", "o", "w", "i", "n", "g", " ", "u", "n", "b", "o", "u", "n", "d", "e", "d", " ", "o", "v", "e", "r", "d", "r", "a", "f", "t" >>
S_limited_suffix ==
    << " ", "a", "l", "l", "o", "w", "i", "n", "g", " ", "o", "v", "e", "r", "d", "r", "a", "f", "t", " ", "u", "p", " ", "t", "o", " ", "[" >>
S_space ==
    << " " >>
S_close_bracket ==
    << "]" >>
S_percent ==
    << "%" >>
S_indent ==
    << " ", " ", " ", " " >>
S_to ==
    << " ", "t", "o", " " >>
S_max_open ==
    << " ", " ", " ", " ", "m", "a", "x", " ", "[" >>
S_max_close ==
    << "]", " ", "t", "o", " " >>
S_remaining_to ==
    << " ", " ", " ", " ", "r", "e", "m", "a", "i", "n", "i", "n", "g", " ", "t", "o", " " >>
S_block_open ==
    << "{", "\n" >>
S_block_close ==
    << "\n", " ", " ", "}" >>
S_nl ==
    << "\n" >>
S_nlnl ==
    << "\n", "\n" >>
S_open_bracket ==
    << "[" >>
S_send ==
    << "s", "e", "n", "d", " " >>
S_send_open ==
    << " ", "(" >>
S_source_eq ==
    << " ", " ", "s", "o", "u", "r", "c", "e", " ", "=", " " >>
S_destination_eq ==
    << " ", " ", "d", "e", "s", "t", "i", "n", "a", "t", "i", "o", "n", " ", "=", " " >>
S_close_paren ==
    << ")" >>
S_comment ==
    << "/", "/", " " >>
S_meta_open ==
    << "s", "e", "t", "_", "t", "x", "_", "m", "e", "t", "a", "(", "\"" >>
S_meta_mid ==
    << "\"", ",", " ", "\"" >>
S_meta_close ==
    << "\"", ")" >>
S_star ==
    << "*" >>

WarnMixed ==
    "Warning: Cannot mix max and fraction in same split. Using max-based inorder."
ErrInvalidDestination ==
    "Invalid destination configuration"

(***************************************************************************)
(* JavaScript built-ins used by the compiler.                              *)
(***************************************************************************)
startsWith(s, p) ==
    Len(s) >= Len(p) /\ SubSeq(s, 1, Len(p)) = p

includes(s, p) ==
    \E i \in 1..(Len(s) - Len(p) + 1) : SubSeq(s, i, i + Len(p) - 1) = p

RECURSIVE join(_, _)
join(list, sep) ==
    IF list = <<>> THEN <<>>
    ELSE IF Len(list) = 1 THEN list[1]
    ELSE list[1] \o sep \o join(Tail(list), sep)

\* Array.prototype.sort with comparator (a, b) => key(a) - key(b), run on
\* <<key, element>> pairs.  The sort is stable (ECMAScript 2019): an element
\* is inserted after every element already placed whose key is not greater
\* than its own.
\* insertSorted placing an element in front of the elements of equal key
\* (an unstable sort).
RECURSIVE insertSorted_beforeEqual(_, _)
insertSorted_beforeEqual(sorted, x) ==
    IF sorted = <<>> THEN <<x>>
    ELSE IF sorted[1][1] - x[1] >= 0 THEN <<x>> \o sorted
    ELSE <<sorted[1]>> \o insertSorted_beforeEqual(Tail(sorted), x)

RECURSIVE insertSorted(_, _)
insertSorted(sorted, x) ==
    IF sorted = <<>> THEN <<x>>
    ELSE IF sorted[1][1] - x[1] > 0 THEN <<x>> \o sorted
    ELSE <<sorted[1]>> \o insertSorted(Tail(sorted), x)

RECURSIVE sortFrom(_, _)
sortFrom(done, rest) ==
    IF rest = <<>> THEN done
    ELSE sortFrom(insertSorted(done, rest[1]), Tail(rest))

\* keys[i] is the comparator's key of list[i].
sort(list, keys) ==
    LET keyed == [i \in 1..Len(list) |-> <<keys[i], list[i]>>]
        out   == sortFrom(<<>>, keyed)
    IN  [i \in 1..Len(out) |-> out[i][2]]

\* An optional field: undefined, or a value.
Absent ==
    [some |-> FALSE, v |-> <<>>]
Present(x) ==
    [some |-> TRUE, v |-> x]

\* Truthiness: undefined and "" are falsy; every array, [] included, is truthy.
truthyString(o) ==
    o.some /\ o.v # <<>>
truthyArray(o) ==
    o.some

(***************************************************************************)
(* The renderers.                                                          *)
(***************************************************************************)
\* formatAccount prefixing "@" whatever the input starts with.
formatAccount_alwaysPrefix(account) ==
    IF account = S_world THEN S_at_world
    ELSE S_at \o account

\* formatAccount testing for an "@" anywhere in the input.
formatAccount_includesAt(account) ==
    IF account = S_world THEN S_at_world
    ELSE IF includes(account, S_at) THEN account
    ELSE S_at \o account

formatAccount(account) ==
    IF account = S_world THEN S_at_world
    ELSE IF startsWith(account, S_at) THEN account
    ELSE S_at \o account

\* formatSource honouring "unbounded" only when no limit is given.
formatSource_unboundedUnlessLimit(posting) ==
    LET account == formatAccount(posting.source) IN
    IF posting.source = S_world \/ posting.source = S_at_world THEN account
    ELSE IF posting.source_overdraft = "unbounded" /\ ~truthyString(posting.overdraft_limit)
        THEN account \o S_unbounded_suffix
    ELSE IF truthyString(posting.overdraft_limit)
        THEN account \o S_limited_suffix \o posting.asset \o S_space
                 \o posting.overdraft_limit.v \o S_close_bracket
    ELSE account

\* formatSource writing the default asset into the overdraft limit.
formatSource_defaultAsset(posting) ==
    LET account == formatAccount(posting.source) IN
    IF posting.source = S_world \/ posting.source = S_at_world THEN account
    ELSE IF posting.source_overdraft = "unbounded"
        THEN account \o S_unbounded_suffix
    ELSE IF posting.source_overdraft = "limited" /\ truthyString(posting.overdraft_limit)
        THEN account \o S_limited_suffix \o << "U", "S", "D", "/", "2" >> \o S_space
                 \o posting.overdraft_limit.v \o S_close_bracket
    ELSE account

\* formatSource adding the limit whenever one is given, whatever the policy.
formatSource_limitWins(posting) ==
    LET account == formatAccount(posting.source) IN
    IF posting.source = S_world \/ posting.source = S_at_world THEN account
    ELSE IF posting.source_overdraft = "unbounded"
        THEN account \o S_unbounded_suffix
    ELSE IF truthyString(posting.overdraft_limit)
        THEN account \o S_limited_suffix \o posting.asset \o S_space
                 \o posting.overdraft_limit.v \o S_close_bracket
    ELSE account

\* formatSource with the guard comparing the raw source with "world" only.
formatSource_rawWorldOnly(posting) ==
    LET account == formatAccount(posting.source) IN
    IF posting.source = S_world THEN account
    ELSE IF posting.source_overdraft = "unbounded"
        THEN account \o S_unbounded_suffix
    ELSE IF posting.source_overdraft = "limited" /\ truthyString(posting.overdraft_limit)
        THEN account \o S_limited_suffix \o posting.asset \o S_space
                 \o posting.overdraft_limit.v \o S_close_bracket
    ELSE account

formatSource(posting) ==
    LET account == formatAccount(posting.source) IN
    IF posting.source = S_world \/ posting.source = S_at_world THEN account
    ELSE IF posting.source_overdraft = "unbounded"
        THEN account \o S_unbounded_suffix
    ELSE IF posting.source_overdraft = "limited" /\ truthyString(posting.overdraft_limit)
        THEN account \o S_limited_suffix \o posting.asset \o S_space
                 \o posting.overdraft_limit.v \o S_close_bracket
    ELSE account

\* formatSplitRule writing a fixed asset into the cap of a max rule.
formatSplitRule_fixedAsset(rule, asset) ==
    LET target == formatAccount(rule.target) IN
    CASE rule.amount_mode = "fraction" ->
           LET value == IF includes(rule.value, S_percent)
                           THEN rule.value ELSE rule.value \o S_percent
           IN  S_indent \o value \o S_to \o target
      [] rule.amount_mode = "max" ->
           S_max_open \o << "U", "S", "D", "/", "2" >> \o S_space \o rule.value \o S_max_close \o target
      [] OTHER ->
           S_remaining_to \o target

\* formatSplitRule appending "%" to every fraction value.
formatSplitRule_alwaysAppend(rule, asset) ==
    LET target == formatAccount(rule.target) IN
    CASE rule.amount_mode = "fraction" ->
           S_indent \o rule.value \o S_percent \o S_to \o target
      [] rule.amount_mode = "max" ->
           S_max_open \o asset \o S_space \o rule.value \o S_max_close \o target
      [] OTHER ->
           S_remaining_to \o target

formatSplitRule(rule, asset) ==
    LET target == formatAccount(rule.target) IN
    CASE rule.amount_mode = "fraction" ->
           LET value == IF includes(rule.value, S_percent)
                           THEN rule.value ELSE rule.value \o S_percent
           IN  S_indent \o value \o S_to \o target
      [] rule.amount_mode = "max" ->
           S_max_open \o asset \o S_space \o rule.value \o S_max_close \o target
      [] rule.amount_mode = "remaining" ->
           S_remaining_to \o target
      [] OTHER ->
           S_remaining_to \o target

\* rules.some(r => r.amount_mode === ...)
hasMax(rules) ==
    \E i \in 1..Len(rules) : rules[i].amount_mode = "max"
hasFraction(rules) ==
    \E i \in 1..Len(rules) : rules[i].amount_mode = "fraction"

\* First variant: { fraction: 0, max: 0, remaining: 1 }, ?? 0 otherwise.
order(r) ==
    CASE r.amount_mode = "fraction" -> 0
      [] r.amount_mode = "max" -> 0
      [] r.amount_mode = "remaining" -> 1
      [] OTHER -> 0

\* Second variant: { fraction: 0, max: 1, remaining: 2 }, ?? 0 otherwise.
order2(r) ==
    CASE r.amount_mode = "fraction" -> 0
      [] r.amount_mode = "max" -> 1
      [] r.amount_mode = "remaining" -> 2
      [] OTHER -> 0

splitBlock(sorted, asset) ==
    S_block_open
        \o join([i \in 1..Len(sorted) |-> formatSplitRule(sorted[i], asset)], S_nl)
        \o S_block_close

\* formatSplitDestination rendering the rules in input order (no sort).
formatSplitDestination_unsorted(rules, asset) ==
    [ ret     |-> splitBlock(rules, asset),
      console |-> IF hasMax(rules) /\ hasFraction(rules) THEN <<WarnMixed>> ELSE <<>> ]

\* The result of a call: the string returned and what it wrote to the console.
formatSplitDestination(rules, asset) ==
    [ ret     |-> splitBlock(sort(rules, [i \in 1..Len(rules) |-> order(rules[i])]), asset),
      console |-> IF hasMax(rules) /\ hasFraction(rules) THEN <<WarnMixed>> ELSE <<>> ]

formatSplitDestination2(rules, asset) ==
    [ ret     |-> splitBlock(sort(rules, [i \in 1..Len(rules) |-> order2(rules[i])]), asset),
      console |-> <<>> ]

Thrown(msg) ==
    [threw |-> TRUE, error |-> msg, ret |-> <<>>, console |-> <<>>]
Returned(s, warnings) ==
    [threw |-> FALSE, error |-> "", ret |-> s, console |-> warnings]

\* statement resolving the wildcard amount to a number.
statement_wildcardAsZero(posting, source, destination) ==
    LET amountValue == IF posting.amount = S_star THEN << "0" >> ELSE posting.amount
        amount == S_open_bracket \o posting.asset \o S_space \o amountValue
                      \o S_close_bracket
    IN  join(<< S_send \o amount \o S_send_open,
                S_source_eq \o source,
                S_destination_eq \o destination,
                S_close_paren >>, S_nl)

statement(posting, source, destination) ==
    LET amountValue == IF posting.amount = S_star THEN S_star ELSE posting.amount
        amount == S_open_bracket \o posting.asset \o S_space \o amountValue
                      \o S_close_bracket
    IN  join(<< S_send \o amount \o S_send_open,
                S_source_eq \o source,
                S_destination_eq \o destination,
                S_close_paren >>, S_nl)

\* compilePosting treating a fraction/max conflict as an error.
compilePosting_conflictThrows(posting) ==
    LET source == formatSource(posting) IN
    IF posting.destination_type = "simple" /\ truthyString(posting.simple_destination)
        THEN Returned(statement(posting, source,
                                formatAccount(posting.simple_destination.v)), <<>>)
    ELSE IF posting.destination_type = "split" /\ truthyArray(posting.split_rules)
        THEN IF hasMax(posting.split_rules.v) /\ hasFraction(posting.split_rules.v)
               THEN Thrown(WarnMixed)
               ELSE LET d == formatSplitDestination(posting.split_rules.v, posting.asset)
                    IN  Returned(statement(posting, source, d.ret), d.console)
    ELSE Thrown(ErrInvalidDestination)

\* compilePosting without the final throw: a missing destination renders as
\* the text "undefined".
compilePosting_noThrow(posting) ==
    LET source == formatSource(posting) IN
    IF posting.destination_type = "simple" /\ truthyString(posting.simple_destination)
        THEN Returned(statement(posting, source,
                                formatAccount(posting.simple_destination.v)), <<>>)
    ELSE IF posting.destination_type = "split" /\ truthyArray(posting.split_rules)
        THEN LET d == formatSplitDestination(posting.split_rules.v, posting.asset)
             IN  Returned(statement(posting, source, d.ret), d.console)
    ELSE Returned(statement(posting, source,
                            << "u", "n", "d", "e", "f", "i", "n", "e", "d" >>), <<>>)

\* compilePosting with an error message that names the defect.
compilePosting_descriptive(posting) ==
    LET source == formatSource(posting) IN
    IF posting.destination_type = "simple" /\ truthyString(posting.simple_destination)
        THEN Returned(statement(posting, source,
                                formatAccount(posting.simple_destination.v)), <<>>)
    ELSE IF posting.destination_type = "split" /\ truthyArray(posting.split_rules)
        THEN LET d == formatSplitDestination(posting.split_rules.v, posting.asset)
             IN  Returned(statement(posting, source, d.ret), d.console)
    ELSE IF posting.destination_type = "simple"
        THEN Thrown("simple destination type but no simple destination")
    ELSE Thrown("split destination type but no split rules")

\* compilePosting rejecting the wildcard amount as not a number.
compilePosting_rejectsWildcard(posting) ==
    LET source == formatSource(posting) IN
    IF posting.amount = S_star THEN Thrown("Invalid amount")
    ELSE IF posting.destination_type = "simple" /\ truthyString(posting.simple_destination)
        THEN Returned(statement(posting, source,
                                formatAccount(posting.simple_destination.v)), <<>>)
    ELSE IF posting.destination_type = "split" /\ truthyArray(posting.split_rules)
        THEN LET d == formatSplitDestination(posting.split_rules.v, posting.asset)
             IN  Returned(statement(posting, source, d.ret), d.console)
    ELSE Thrown(ErrInvalidDestination)

compilePosting(posting) ==
    LET source == formatSource(posting) IN
    IF posting.destination_type = "simple" /\ truthyString(posting.simple_destination)
        THEN Returned(statement(posting, source,
                                formatAccount(posting.simple_destination.v)), <<>>)
    ELSE IF posting.destination_type = "split" /\ truthyArray(posting.split_rules)
        THEN LET d == formatSplitDestination(posting.split_rules.v, posting.asset)
             IN  Returned(statement(posting, source, d.ret), d.console)
    ELSE Thrown(ErrInvalidDestination)

compilePosting2(posting) ==
    LET source == formatSource(posting) IN
    IF posting.destination_type = "simple" /\ truthyString(posting.simple_destination)
        THEN Returned(statement(posting, source,
                                formatAccount(posting.simple_destination.v)), <<>>)
    ELSE IF posting.destination_type = "split" /\ truthyArray(posting.split_rules)
        THEN LET d == formatSplitDestination2(posting.split_rules.v, posting.asset)
             IN  Returned(statement(posting, source, d.ret), d.console)
    ELSE Thrown(ErrInvalidDestination)

\* The entries whose key did not occur earlier in the list.
RECURSIVE uniqueKeys(_)
uniqueKeys(metadata) ==
    IF metadata = <<>> THEN <<>>
    ELSE LET init == uniqueKeys(SubSeq(metadata, 1, Len(metadata) - 1))
             last == metadata[Len(metadata)]
         IN  IF \E i \in 1..Len(init) : init[i].key = last.key
               THEN init ELSE Append(init, last)

\* compileMetadata keeping one statement per key.
compileMetadata_dedupe(metadata) ==
    LET m == uniqueKeys(metadata) IN
    [i \in 1..Len(m) |->
        S_meta_open \o m[i].key \o S_meta_mid \o m[i].value \o S_meta_close]

compileMetadata(metadata) ==
    [i \in 1..Len(metadata) |->
        S_meta_open \o metadata[i].key \o S_meta_mid \o metadata[i].value \o S_meta_close]

(***************************************************************************)
(* Inputs: schema-valid intents (zod: enums constrained, optional fields   *)
(* possibly undefined, at least one posting).                              *)
(***************************************************************************)
Acc_a ==
    << "a" >>
Acc_at_b ==
    << "@", "b" >>
Acc_c ==
    << "c" >>
USD2 ==
    << "U", "S", "D", "/", "2" >>
EUR2 ==
    << "E", "U", "R", "/", "2" >>
Val_5 ==
    << "5" >>
Val_5pct ==
    << "5", "%" >>
Val_9 ==
    << "9" >>
Amt_7 ==
    << "7" >>
Summary_R ==
    << "R" >>

Rule(t, m, v) ==
    [target |-> t, amount_mode |-> m, value |-> v]

\* Rules for direct calls of formatSplitDestination.
RuleSet ==
    { Rule(t, mv[1], mv[2]) :
        t \in {Acc_a, Acc_at_b},
        mv \in { <<"fraction", Val_5>>, <<"fraction", Val_5pct>>,
                 <<"max", Val_9>>, <<"remaining", <<>> >> } }

\* Rules inside postings.
PostingRuleSet ==
    { Rule(Acc_a, "fraction", Val_5), Rule(Acc_at_b, "max", Val_9),
      Rule(Acc_c, "remaining", <<>>) }

Lists(S, n) ==
    UNION { [1..k -> S] : k \in 0..n }

Posting(src, od, lim, dt, sd, sr, asset, amt) ==
    [ source |-> src, source_overdraft |-> od, overdraft_limit |-> lim,
      destination_type |-> dt, simple_destination |-> sd, split_rules |-> sr,
      asset |-> asset, amount |-> amt ]

\* Postings for direct calls of formatSource.
SourcePostings ==
    { Posting(src, od, lim, "simple", Present(Acc_c), Absent, asset, Amt_7) :
        src \in {S_world, S_at_world, Acc_a, Acc_at_b},
        od \in {"none", "unbounded", "limited"},
        lim \in {Absent, Present(<<>>), Present(Val_5)},
        asset \in {USD2, EUR2} }

\* <<source, source_overdraft, overdraft_limit, amount>>
SourceChoices ==
    { <<Acc_a, "none", Absent, Amt_7>>,
      <<S_world, "unbounded", Absent, S_star>>,
      <<Acc_a, "limited", Present(Val_5), S_star>> }

\* Amount strings for direct calls of compilePosting.
AmountStrings ==
    { S_star, Amt_7, << "0", "0", "7" >>, << "1", "0", "0", "0", "0" >> }

\* Postings for direct calls of compilePosting.
PostingSamples ==
    { Posting(sc[1], sc[2], sc[3], dt, sd, sr, asset, amt) :
        sc \in SourceChoices,
        asset \in {USD2, EUR2},
        amt \in AmountStrings,
        dt \in {"simple", "split"},
        sd \in {Absent, Present(<<>>), Present(Acc_c)},
        sr \in {Absent} \cup { Present(l) : l \in Lists(PostingRuleSet, MaxRules) } }

\* <<destination_type, simple_destination, split_rules>>
DestChoices ==
    { <<"simple", Absent, Absent>>,
      <<"simple", Present(<<>>), Absent>>,
      <<"simple", Present(Acc_c), Absent>>,
      <<"simple", Absent, Present(<< Rule(Acc_a, "remaining", <<>>) >>)>>,
      <<"split", Absent, Absent>>,
      <<"split", Present(Acc_c), Absent>>,
      <<"split", Absent, Present(<<>>)>>,
      <<"split", Absent,
        Present(<< Rule(Acc_a, "max", Val_9), Rule(Acc_at_b, "fraction", Val_5pct) >>)>>,
      <<"split", Absent,
        Present(<< Rule(Acc_c, "remaining", <<>>), Rule(Acc_a, "fraction", Val_5) >>)>> }

\* Postings of the intents given to compileToNumscript.
IntentPostings ==
    { Posting(Acc_a, "none", Absent, d[1], d[2], d[3], USD2, Amt_7) : d \in DestChoices }
    \cup
    { Posting(sc[1], sc[2], sc[3], "simple", Present(Acc_at_b), Absent, EUR2, sc[4]) :
        sc \in SourceChoices \ { <<Acc_a, "none", Absent, Amt_7>> } }

MetaEntry ==
    [key |-> << "k" >>, value |-> << "v" >>]
MetaEntry2 ==
    [key |-> << "t" >>, value |-> << "r", "e", "f" >>]

\* Intents of the first variant's schema: metadata is an optional array.
Intents ==
    { [summary |-> Summary_R, postings |-> ps, metadata |-> md] :
        ps \in Lists(IntentPostings, MaxPostings) \ { <<>> },
        md \in {Absent} \cup
               { Present(l) : l \in Lists({MetaEntry, MetaEntry2}, MaxMeta) } }

\* Intents of the second variant's schema: it declares no metadata, so a
\* validated intent has none.
Intents2 ==
    { intent \in Intents : intent.metadata = Absent }

\* Account strings for direct calls of formatAccount.
AccountStrings ==
    { <<>>, S_world, S_at_world, S_at, Acc_a, Acc_at_b,
      << "@", "@", "a" >>, << "a", "@", "b" >>, << "w", "o", "r", "l", "d", "s" >>,
      << "W", "o", "r", "l", "d" >>, << "c", ":", "u", "1" >> }

\* Rules for direct calls of formatSplitRule.
RuleSamples ==
    { Rule(t, m, v) :
        t \in {Acc_a, Acc_at_b, S_world},
        m \in {"fraction", "max", "remaining"},
        v \in { <<>>, Val_5, Val_5pct, Val_9, << "%", "5" >>, << "1", "/", "2" >> } }

\* Metadata lists for direct calls of compileMetadata: z.string() keys and
\* values, among them empty ones and ones holding spaces, quotes, backslashes.
MetaKeys ==
    { << "k" >>, <<>>, << " ", "k", " " >> }
MetaValues ==
    { << "v" >>, <<>>, << "a", "\"", "b" >>, << "\\", "n" >> }
MetaSamples ==
    Lists({ [key |-> k, value |-> v] : k \in MetaKeys, v \in MetaValues }, MaxMeta)

\* The callers that may have a compileToNumscript call in flight at once.
Callers ==
    {"A", "B"}

\* The frame of a caller that has not called yet.
IdleFrame ==
    [pc |-> "idle", intent |-> <<>>, idx |-> 0, postings |-> <<>>,
     ret |-> <<>>, error |-> ""]

\* A promise of validateWithMCP that nothing has settled.
Pending ==
    [settled |-> FALSE, by |-> "", valid |-> FALSE, errors |-> <<>>, line |-> Absent]

\* The generate route before a request arrives.
GenerateIdle ==
    /\ gpc = "idle"
    /\ attempt = 0
    /\ lastError = Absent
    /\ currentPrompt = Absent
    /\ lastNumscript = Absent
    /\ current = Absent
    /\ validation = Pending
    /\ sent = Absent
    /\ response = Absent

\* The simulate route before a request arrives.
SimulateIdle ==
    /\ spc = "idle"
    /\ body = Absent
    /\ balances = << >>
    /\ finalBalances = << >>
    /\ heap = << >>
    /\ applied = 0
    /\ lastApplied = Absent
    /\ touched = {}
    /\ simResponse = Absent

\* A promise of callMCPEvaluate that nothing has settled.
Unsettled ==
    [settled |-> FALSE, by |-> ""]

\* The simulate route before callMCPEvaluate is called.
EvaluateIdle ==
    /\ epc = "idle"
    /\ child = "none"
    /\ stdin = << >>
    /\ ended = FALSE
    /\ readPos = 0
    /\ results = 0
    /\ pipe = << >>
    /\ stdout = << >>
    /\ timer = FALSE
    /\ promise = Unsettled

(***************************************************************************)
(* The state machine: a caller invokes one function at a time.             *)
(***************************************************************************)
Init ==
    /\ variant \in {1, 2}
    /\ pc = "idle"
    /\ fn = ""
    /\ arg = <<>>
    /\ idx = 0
    /\ postings = <<>>
    /\ ret = <<>>
    /\ error = ""
    /\ console = <<>>
    /\ calls = [c \in Callers |-> IdleFrame]
    /\ GenerateIdle
    /\ SimulateIdle
    /\ EvaluateIdle

Call_formatAccount ==
    /\ pc = "idle"
    /\ \E account \in AccountStrings :
         /\ arg' = account
         /\ ret' = formatAccount(account)
    /\ fn' = "formatAccount"
    /\ pc' = "returned"
    /\ UNCHANGED << variant, idx, postings, error, console >>
    /\ UNCHANGED notCompiler

Call_formatSplitRule ==
    /\ pc = "idle"
    /\ \E rule \in RuleSamples, asset \in {USD2, EUR2} :
         /\ arg' = [rule |-> rule, asset |-> asset]
         /\ ret' = formatSplitRule(rule, asset)
    /\ fn' = "formatSplitRule"
    /\ pc' = "returned"
    /\ UNCHANGED << variant, idx, postings, error, console >>
    /\ UNCHANGED notCompiler

Call_formatSource ==
    /\ pc = "idle"
    /\ \E p \in SourcePostings :
         /\ arg' = p
         /\ ret' = formatSource(p)
    /\ fn' = "formatSource"
    /\ pc' = "returned"
    /\ UNCHANGED << variant, idx, postings, error, console >>
    /\ UNCHANGED notCompiler

Call_formatSplitDestination ==
    /\ pc = "idle"
    /\ \E rules \in Lists(RuleSet, MaxRules), asset \in {USD2, EUR2} :
         LET r == IF variant = 1 THEN formatSplitDestination(rules, asset)
                                 ELSE formatSplitDestination2(rules, asset)
         IN  /\ arg' = [rules |-> rules, asset |-> asset]
             /\ ret' = r.ret
             /\ console' = r.console
    /\ fn' = "formatSplitDestination"
    /\ pc' = "returned"
    /\ UNCHANGED << variant, idx, postings, error >>
    /\ UNCHANGED notCompiler

Call_compilePosting ==
    /\ pc = "idle"
    /\ \E p \in PostingSamples :
         LET r == IF variant = 1 THEN compilePosting(p) ELSE compilePosting2(p)
         IN  /\ arg' = p
             /\ ret' = r.ret
             /\ error' = r.error
             /\ console' = r.console
             /\ pc' = IF r.threw THEN "thrown" ELSE "returned"
    /\ fn' = "compilePosting"
    /\ UNCHANGED << variant, idx, postings >>
    /\ UNCHANGED notCompiler

\* compileMetadata exists in the first variant only.
Call_compileMetadata ==
    /\ pc = "idle"
    /\ variant = 1
    /\ \E metadata \in MetaSamples :
         /\ arg' = metadata
         /\ ret' = compileMetadata(metadata)
    /\ fn' = "compileMetadata"
    /\ pc' = "returned"
    /\ UNCHANGED << variant, idx, postings, error, console >>
    /\ UNCHANGED notCompiler

\* compileToNumscript is entered; Array.map starts at the first posting.
Call_compileToNumscript ==
    /\ pc = "idle"
    /\ \E intent \in (IF variant = 1 THEN Intents ELSE Intents2) : arg' = intent
    /\ fn' = "compileToNumscript"
    /\ pc' = "map"
    /\ idx' = 1
    /\ UNCHANGED << variant, postings, ret, error, console >>
    /\ UNCHANGED notCompiler

\* MapPosting collecting the statements newest first.
MapPosting_prepend ==
    /\ pc = "map"
    /\ idx <= Len(arg.postings)
    /\ LET r == IF variant = 1 THEN compilePosting(arg.postings[idx])
                               ELSE compilePosting2(arg.postings[idx])
       IN  IF r.threw
             THEN /\ pc' = "thrown"
                  /\ error' = r.error
                  /\ UNCHANGED << idx, postings, console >>
             ELSE /\ postings' = << r.ret >> \o postings
                  /\ console' = console \o r.console
                  /\ idx' = idx + 1
                  /\ UNCHANGED << pc, error >>
    /\ UNCHANGED << variant, fn, arg, ret >>
    /\ UNCHANGED notCompiler

\* MapPosting whose formatSplitDestination sorts posting.split_rules itself
\* (rules.sort(...) instead of [...rules].sort(...)).
MapPosting_sortInPlace ==
    /\ pc = "map"
    /\ idx <= Len(arg.postings)
    /\ LET p == arg.postings[idx]
           r == IF variant = 1 THEN compilePosting(p) ELSE compilePosting2(p)
           sorted == IF variant = 1
                       THEN sort(p.split_rules.v,
                                 [i \in 1..Len(p.split_rules.v) |-> order(p.split_rules.v[i])])
                       ELSE sort(p.split_rules.v,
                                 [i \in 1..Len(p.split_rules.v) |-> order2(p.split_rules.v[i])])
       IN  IF r.threw
             THEN /\ pc' = "thrown"
                  /\ error' = r.error
                  /\ UNCHANGED << idx, postings, console, arg >>
             ELSE /\ postings' = Append(postings, r.ret)
                  /\ console' = console \o r.console
                  /\ idx' = idx + 1
                  /\ arg' = IF p.destination_type = "split" /\ truthyArray(p.split_rules)
                              THEN [arg EXCEPT !.postings[idx].split_rules.v = sorted]
                              ELSE arg
                  /\ UNCHANGED << pc, error >>
    /\ UNCHANGED << variant, fn >>
    /\ ret' = ret
    /\ UNCHANGED notCompiler

\* intent.postings.map(compilePosting): one callback.  An Error thrown by the
\* callback leaves map and compileToNumscript; nothing catches it.
MapPosting ==
    /\ pc = "map"
    /\ idx <= Len(arg.postings)
    /\ LET r == IF variant = 1 THEN compilePosting(arg.postings[idx])
                               ELSE compilePosting2(arg.postings[idx])
       IN  IF r.threw
             THEN /\ pc' = "thrown"
                  /\ error' = r.error
                  /\ UNCHANGED << idx, postings, console >>
             ELSE /\ postings' = Append(postings, r.ret)
                  /\ console' = console \o r.console
                  /\ idx' = idx + 1
                  /\ UNCHANGED << pc, error >>
    /\ UNCHANGED << variant, fn, arg, ret >>
    /\ UNCHANGED notCompiler

\* Join putting the metadata statements before the postings.
Join_metadataFirst ==
    /\ pc = "map"
    /\ variant = 1
    /\ idx > Len(arg.postings)
    /\ LET header == S_comment \o arg.summary
           meta   == IF truthyArray(arg.metadata) /\ Len(arg.metadata.v) > 0
                        THEN compileMetadata(arg.metadata.v) \o << <<>> >>
                        ELSE <<>>
       IN  ret' = join(<< header, <<>> >> \o meta \o postings, S_nlnl)
    /\ pc' = "returned"
    /\ UNCHANGED << variant, fn, arg, idx, postings, error, console >>
    /\ UNCHANGED notCompiler

\* Join without the "" part in front of the metadata statements.
Join_noMetadataGap ==
    /\ pc = "map"
    /\ variant = 1
    /\ idx > Len(arg.postings)
    /\ LET header == S_comment \o arg.summary
           parts  == << header, <<>> >> \o postings
           all    == IF truthyArray(arg.metadata) /\ Len(arg.metadata.v) > 0
                        THEN parts \o compileMetadata(arg.metadata.v)
                        ELSE parts
       IN  ret' = join(all, S_nlnl)
    /\ pc' = "returned"
    /\ UNCHANGED << variant, fn, arg, idx, postings, error, console >>
    /\ UNCHANGED notCompiler

\* First variant: header, "", the postings, then "" and the metadata
\* statements when metadata is a non-empty array; joined by "\n\n".
Join ==
    /\ pc = "map"
    /\ variant = 1
    /\ idx > Len(arg.postings)
    /\ LET header == S_comment \o arg.summary
           parts  == << header, <<>> >> \o postings
           all    == IF truthyArray(arg.metadata) /\ Len(arg.metadata.v) > 0
                        THEN parts \o << <<>> >> \o compileMetadata(arg.metadata.v)
                        ELSE parts
       IN  ret' = join(all, S_nlnl)
    /\ pc' = "returned"
    /\ UNCHANGED << variant, fn, arg, idx, postings, error, console >>
    /\ UNCHANGED notCompiler

\* Second variant: header, "" and the postings; metadata is not read.
Join2 ==
    /\ pc = "map"
    /\ variant = 2
    /\ idx > Len(arg.postings)
    /\ ret' = join(<< S_comment \o arg.summary, <<>> >> \o postings, S_nlnl)
    /\ pc' = "returned"
    /\ UNCHANGED << variant, fn, arg, idx, postings, error, console >>
    /\ UNCHANGED notCompiler

\* The caller has taken the result (or caught the Error); the next call starts
\* from a clean slate.
Settle ==
    /\ pc \in {"returned", "thrown"}
    /\ pc' = "idle"
    /\ fn' = ""
    /\ arg' = <<>>
    /\ idx' = 0
    /\ postings' = <<>>
    /\ ret' = <<>>
    /\ error' = ""
    /\ console' = <<>>
    /\ UNCHANGED variant
    /\ UNCHANGED notCompiler

Next ==
    \/ Call_formatAccount
    \/ Call_formatSplitRule
    \/ Call_formatSource
    \/ Call_formatSplitDestination
    \/ Call_compilePosting
    \/ Call_compileMetadata
    \/ Call_compileToNumscript
    \/ MapPosting
    \/ Join
    \/ Join2
    \/ Settle

Spec ==
    Init /\ [][Next]_vars

(***************************************************************************)
(* compileToNumscript as a whole: the outcome of one call running alone.   *)
(***************************************************************************)
RECURSIVE flatten(_)
flatten(ss) ==
    IF ss = <<>> THEN <<>> ELSE ss[1] \o flatten(Tail(ss))

compileToNumscript(intent) ==
    LET n    == Len(intent.postings)
        rs   == [i \in 1..n |-> IF variant = 1 THEN compilePosting(intent.postings[i])
                                               ELSE compilePosting2(intent.postings[i])]
        bad  == { i \in 1..n : rs[i].threw }
        k    == CHOOSE i \in bad : \A j \in bad : i <= j
        head == << S_comment \o intent.summary, <<>> >>
        meta == IF variant = 1 /\ truthyArray(intent.metadata) /\ Len(intent.metadata.v) > 0
                  THEN << <<>> >> \o compileMetadata(intent.metadata.v)
                  ELSE <<>>
    IN  IF bad # {}
          THEN [threw |-> TRUE, error |-> rs[k].error, ret |-> <<>>,
                console |-> flatten([i \in 1..(k - 1) |-> rs[i].console])]
          ELSE [threw |-> FALSE, error |-> "",
                ret |-> join(head \o [i \in 1..n |-> rs[i].ret] \o meta, S_nlnl),
                console |-> flatten([i \in 1..n |-> rs[i].console])]

(***************************************************************************)
(* Concurrent callers.  Each call has its own frame (its locals: the       *)
(* intent it was given, how far Array.map is, the statements so far); the  *)
(* module and the console are the process's.  A call is cut into the same  *)
(* steps as above and the steps of different calls interleave freely.      *)
(***************************************************************************)
\* Intents of the concurrent callers: a plain transfer, a mixed split (the
\* first variant warns), a posting without destination (throws), metadata.
ConcurrentPostings ==
    { Posting(Acc_a, "none", Absent, "simple", Present(Acc_c), Absent, USD2, Amt_7),
      Posting(S_world, "unbounded", Absent, "split", Absent,
              Present(<< Rule(Acc_a, "max", Val_9), Rule(Acc_at_b, "fraction", Val_5),
                         Rule(Acc_c, "remaining", <<>>) >>), EUR2, S_star),
      Posting(Acc_a, "limited", Present(Val_5), "split", Absent, Absent, USD2, Amt_7) }

ConcurrentIntents ==
    { [summary |-> Summary_R, postings |-> ps, metadata |-> md] :
        ps \in { << p >> : p \in ConcurrentPostings }
                 \cup { << p, q >> : p \in ConcurrentPostings, q \in ConcurrentPostings },
        md \in IF variant = 1 THEN {Absent, Present(<< MetaEntry >>)} ELSE {Absent} }

InitConcurrent ==
    /\ variant \in {1, 2}
    /\ pc = "idle"
    /\ fn = ""
    /\ arg = <<>>
    /\ idx = 0
    /\ postings = <<>>
    /\ ret = <<>>
    /\ error = ""
    /\ console = <<>>
    /\ calls = [c \in Callers |-> IdleFrame]
    /\ GenerateIdle
    /\ SimulateIdle
    /\ EvaluateIdle

\* Caller c enters compileToNumscript with its intent.
BeginCall(c) ==
    /\ calls[c].pc = "idle"
    /\ \E intent \in ConcurrentIntents :
         calls' = [calls EXCEPT ![c] = [IdleFrame EXCEPT !.pc = "map", !.intent = intent,
                                                         !.idx = 1]]
    /\ UNCHANGED << variant, console, notConcurrent >>

\* MapCall with one statement buffer for the whole module instead of one
\* per call: every call appends to, and joins, what all calls produced.
MapCall_sharedBuffer(c) ==
    /\ calls[c].pc = "map"
    /\ calls[c].idx <= Len(calls[c].intent.postings)
    /\ LET p == calls[c].intent.postings[calls[c].idx]
           r == IF variant = 1 THEN compilePosting(p) ELSE compilePosting2(p)
       IN  IF r.threw
             THEN /\ calls' = [calls EXCEPT ![c].pc = "thrown", ![c].error = r.error]
                  /\ UNCHANGED console
             ELSE /\ calls' = [d \in Callers |->
                                 IF d = c
                                   THEN [calls[d] EXCEPT !.postings = Append(@, r.ret),
                                                         !.idx = @ + 1]
                                   ELSE IF calls[d].pc = "map"
                                          THEN [calls[d] EXCEPT !.postings = Append(@, r.ret)]
                                          ELSE calls[d]]
                  /\ console' = console \o r.console
    /\ UNCHANGED << variant, notConcurrent >>

\* One callback of intent.postings.map(compilePosting) in the call of c.
MapCall(c) ==
    /\ calls[c].pc = "map"
    /\ calls[c].idx <= Len(calls[c].intent.postings)
    /\ LET p == calls[c].intent.postings[calls[c].idx]
           r == IF variant = 1 THEN compilePosting(p) ELSE compilePosting2(p)
       IN  IF r.threw
             THEN /\ calls' = [calls EXCEPT ![c].pc = "thrown", ![c].error = r.error]
                  /\ UNCHANGED console
             ELSE /\ calls' = [calls EXCEPT ![c].postings = Append(@, r.ret),
                                            ![c].idx = @ + 1]
                  /\ console' = console \o r.console
    /\ UNCHANGED << variant, notConcurrent >>

\* The call of c assembles and returns its script (first variant).
JoinCall(c) ==
    /\ calls[c].pc = "map"
    /\ variant = 1
    /\ calls[c].idx > Len(calls[c].intent.postings)
    /\ LET intent == calls[c].intent
           parts  == << S_comment \o intent.summary, <<>> >> \o calls[c].postings
           all    == IF truthyArray(intent.metadata) /\ Len(intent.metadata.v) > 0
                        THEN parts \o << <<>> >> \o compileMetadata(intent.metadata.v)
                        ELSE parts
       IN  calls' = [calls EXCEPT ![c].pc = "returned", ![c].ret = join(all, S_nlnl)]
    /\ UNCHANGED << variant, console, notConcurrent >>

\* The call of c assembles and returns its script (second variant).
JoinCall2(c) ==
    /\ calls[c].pc = "map"
    /\ variant = 2
    /\ calls[c].idx > Len(calls[c].intent.postings)
    /\ LET intent == calls[c].intent
       IN  calls' = [calls EXCEPT
                       ![c].pc = "returned",
                       ![c].ret = join(<< S_comment \o intent.summary, <<>> >>
                                           \o calls[c].postings, S_nlnl)]
    /\ UNCHANGED << variant, console, notConcurrent >>

NextConcurrent ==
    \E c \in Callers :
        \/ BeginCall(c)
        \/ MapCall(c)
        \/ JoinCall(c)
        \/ JoinCall2(c)

SpecConcurrent ==
    InitConcurrent /\ [][NextConcurrent]_vars

(***************************************************************************)
(* The generate route: POST with its retry loop, generateIntent and        *)
(* validateWithMCP.  A message is a sequence of pieces of text.            *)
(***************************************************************************)
MAX_RETRIES ==
    5

\* Bound of the model: the lines the checker writes to its stdout.
MaxLines ==
    2

\* The messages of the Errors generateIntent throws; a value thrown that is
\* no Error is reported as "Unknown error" by the handler.
Msg_NoResponse ==
    << "No response from AI model" >>
Msg_JsonParse ==
    << "JSON parse error. Raw response: ", "Sure! Here is the JSON" >>
Msg_JsonParseQuotingSchema ==
    << "JSON parse error. Raw response: ", "SCHEMA_ERROR", " again?" >>
Msg_Schema ==
    << "SCHEMA_ERROR", ": ", "postings: Required" >>
Msg_Unknown ==
    << "Unknown error" >>

GenerateErrors ==
    { Msg_NoResponse, Msg_JsonParse, Msg_JsonParseQuotingSchema, Msg_Schema, Msg_Unknown }

\* errorMsg.includes("SCHEMA_ERROR")
mentionsSchemaError(errorMsg) ==
    \E i \in 1..Len(errorMsg) : errorMsg[i] = "SCHEMA_ERROR"

\* The intents the AI service answers with, once validated by the schema.
GeneratedIntents ==
    { intent \in ConcurrentIntents : Len(intent.postings) = 1 }

\* Diagnostics of the checker.
Diag_Warning ==
    [severity |-> "Warning", kind |-> "UnusedVar"]
Diag_Error ==
    [severity |-> "Error", kind |-> "TypeMismatch"]
DiagLists ==
    { <<>>, << Diag_Warning >>, << Diag_Error >>, << Diag_Warning, Diag_Error >> }

\* One line of the checker's stdout, by what the loop of the close handler
\* makes of it:
\*   garbage   JSON.parse or a property access throws
\*   init      a response with id 0
\*   rpcError  a response with an error member
\*   text      result.content holds a text that is JSON with an errors array
\*   errors    result has an errors member
\*   empty     a response with neither (no result, or text that is no JSON)
Line(kind, ds) ==
    [kind |-> kind, diagnostics |-> ds]
Msg_Rpc ==
    << "tool not found" >>
StdoutLines ==
    { Line(k, <<>>) : k \in {"garbage", "init", "rpcError", "empty"} }
    \cup { Line(k, ds) : k \in {"text", "errors"}, ds \in DiagLists }

isErrorSeverity(e) ==
    e.severity = "Error"

\* errors.map(e => `${e.severity}: ${e.kind}`)
describe(errors) ==
    [i \in 1..Len(errors) |-> << errors[i].severity, ": ", errors[i].kind >>]

\* What the close handler resolves the promise with, reading the lines in
\* order: the first line that decides, or { valid: true } when none does.
RECURSIVE readLines(_)
readLines(lines) ==
    IF lines = <<>>
      THEN [valid |-> TRUE, errors |-> <<>>, line |-> Absent]
    ELSE LET l == lines[1] IN
         CASE l.kind = "rpcError" ->
                [valid |-> FALSE, errors |-> << Msg_Rpc >>, line |-> Present(l)]
           [] l.kind \in {"text", "errors"} ->
                LET errors == SelectSeq(l.diagnostics, isErrorSeverity) IN
                IF Len(errors) = 0
                  THEN [valid |-> TRUE, errors |-> <<>>, line |-> Present(l)]
                  ELSE [valid |-> FALSE, errors |-> describe(errors), line |-> Present(l)]
           [] OTHER -> readLines(Tail(lines))

\* A promise settles once: a later resolve does nothing.
resolve(by, value) ==
    IF validation.settled THEN validation
    ELSE [settled |-> TRUE, by |-> by, valid |-> value.valid, errors |-> value.errors,
          line |-> value.line]

Requests ==
    [ body : BOOLEAN, prompt : BOOLEAN, chartYaml : BOOLEAN, apiKey : BOOLEAN,
      chartParses : BOOLEAN ]

InitGenerate ==
    /\ variant \in {1, 2}
    /\ pc = "idle"
    /\ fn = ""
    /\ arg = <<>>
    /\ idx = 0
    /\ postings = <<>>
    /\ ret = <<>>
    /\ error = ""
    /\ console = <<>>
    /\ calls = [c \in Callers |-> IdleFrame]
    /\ GenerateIdle
    /\ SimulateIdle
    /\ EvaluateIdle

\* POST up to the loop: the request is read and checked.
POST_receive ==
    /\ gpc = "idle"
    /\ \E request \in Requests :
         CASE ~request.body ->
                /\ response' = Present([status |-> 500, success |-> FALSE,
                                        error |-> << "Internal server error" >>])
                /\ gpc' = "responded"
                /\ UNCHANGED currentPrompt
           [] request.body /\ ~request.prompt ->
                /\ response' = Present([status |-> 400, success |-> FALSE,
                                        error |-> << "Missing or invalid prompt" >>])
                /\ gpc' = "responded"
                /\ UNCHANGED currentPrompt
           [] request.body /\ request.prompt /\ ~request.chartYaml ->
                /\ response' = Present([status |-> 400, success |-> FALSE,
                                        error |-> << "Missing Chart of Accounts" >>])
                /\ gpc' = "responded"
                /\ UNCHANGED currentPrompt
           [] request.body /\ request.prompt /\ request.chartYaml /\ ~request.apiKey ->
                /\ response' = Present([status |-> 500, success |-> FALSE,
                                        error |-> << "OpenAI API key not configured" >>])
                /\ gpc' = "responded"
                /\ UNCHANGED currentPrompt
           [] request.body /\ request.prompt /\ request.chartYaml /\ request.apiKey
                /\ ~request.chartParses ->
                /\ response' = Present([status |-> 400, success |-> FALSE,
                                        error |-> << "Invalid Chart of Accounts: " >>])
                /\ gpc' = "responded"
                /\ UNCHANGED currentPrompt
           [] OTHER ->
                /\ currentPrompt' = Present([kind |-> "original", feedback |-> <<>>])
                /\ gpc' = "loop"
                /\ UNCHANGED response
    /\ UNCHANGED << attempt, lastError, lastNumscript, current, validation, sent >>
    /\ UNCHANGED << variant, console, notGenerate >>

\* POST_loop letting a sixth attempt start (attempt <= MAX_RETRIES).
POST_loop_offByOne ==
    /\ gpc = "loop"
    /\ IF attempt <= MAX_RETRIES
         THEN /\ attempt' = attempt + 1
              /\ sent' = currentPrompt
              /\ gpc' = "generate"
         ELSE /\ gpc' = "after"
              /\ UNCHANGED << attempt, sent >>
    /\ UNCHANGED << lastError, currentPrompt, lastNumscript, current, validation, response >>
    /\ UNCHANGED << variant, console, notGenerate >>

\* while (attempt < MAX_RETRIES) { attempt++; ... generateIntent(systemPrompt,
\* currentPrompt) is called and awaited.
POST_loop ==
    /\ gpc = "loop"
    /\ IF attempt < MAX_RETRIES
         THEN /\ attempt' = attempt + 1
              /\ sent' = currentPrompt
              /\ gpc' = "generate"
         ELSE /\ gpc' = "after"
              /\ UNCHANGED << attempt, sent >>
    /\ UNCHANGED << lastError, currentPrompt, lastNumscript, current, validation, response >>
    /\ UNCHANGED << variant, console, notGenerate >>

\* The catch block of the loop, entered with the message of what was thrown.
POST_catch(errorMsg) ==
    /\ lastError' = Present(errorMsg)
    /\ IF attempt >= MAX_RETRIES
         THEN /\ gpc' = "after"
              /\ UNCHANGED currentPrompt
         ELSE /\ gpc' = "loop"
              /\ currentPrompt' =
                   IF mentionsSchemaError(errorMsg)
                     THEN Present([kind |-> "schemaFix", feedback |-> << errorMsg >>])
                     ELSE Present([kind |-> "retry", feedback |-> << errorMsg >>])

\* generateIntent throws: no answer, no JSON, not the schema, or the request
\* itself failed.
generateIntent_throws ==
    /\ gpc = "generate"
    /\ \E errorMsg \in GenerateErrors : POST_catch(errorMsg)
    /\ UNCHANGED << attempt, lastNumscript, current, validation, sent, response >>
    /\ UNCHANGED << variant, console, notGenerate >>

\* generateIntent returns an intent; it is compiled, and when that does not
\* throw the checker is spawned and validateWithMCP awaited.
generateIntent_returns ==
    /\ gpc = "generate"
    /\ \E intent \in GeneratedIntents :
         LET r == compileToNumscript(intent) IN
         IF r.threw
           THEN /\ POST_catch(<< r.error >>)
                /\ console' = console \o r.console
                /\ UNCHANGED << lastNumscript, current, validation >>
           ELSE /\ current' = Present([intent |-> intent, numscript |-> r.ret])
                /\ lastNumscript' = Present(r.ret)
                /\ validation' = Pending
                /\ console' = console \o r.console
                /\ gpc' = "validate"
                /\ UNCHANGED << lastError, currentPrompt >>
    /\ UNCHANGED << attempt, sent, response >>
    /\ UNCHANGED << variant, notGenerate >>

\* proc.on("error"): the checker could not be started.
proc_error ==
    /\ gpc = "validate"
    /\ validation' = resolve("error", [valid |-> TRUE, errors |-> <<>>, line |-> Absent])
    /\ gpc' = "validated"
    /\ UNCHANGED << attempt, lastError, currentPrompt, lastNumscript, current, sent,
                    response >>
    /\ UNCHANGED << variant, console, notGenerate >>

\* proc.on("close"): the checker has exited, having written some lines.
proc_close ==
    /\ gpc = "validate"
    /\ \E lines \in Lists(StdoutLines, MaxLines) :
         validation' = resolve("close", readLines(lines))
    /\ gpc' = "validated"
    /\ UNCHANGED << attempt, lastError, currentPrompt, lastNumscript, current, sent,
                    response >>
    /\ UNCHANGED << variant, console, notGenerate >>

\* setTimeout(..., 5000): the checker is killed.
timeout_fires ==
    /\ gpc = "validate"
    /\ validation' = resolve("timeout", [valid |-> TRUE, errors |-> <<>>, line |-> Absent])
    /\ gpc' = "validated"
    /\ UNCHANGED << attempt, lastError, currentPrompt, lastNumscript, current, sent,
                    response >>
    /\ UNCHANGED << variant, console, notGenerate >>

\* The loop after `await validateWithMCP(numscript)`.
POST_validated ==
    /\ gpc = "validated"
    /\ IF validation.valid
         THEN /\ response' = Present([status |-> 200, success |-> TRUE,
                                      intent |-> current.v.intent,
                                      numscript |-> current.v.numscript,
                                      attempts |-> attempt,
                                      mcpValidation |-> [valid |-> TRUE]])
              /\ gpc' = "responded"
              /\ UNCHANGED << lastError, currentPrompt >>
         ELSE /\ lastError' = Present(join(validation.errors, << "; " >>))
              /\ currentPrompt' = Present([kind |-> "fix", feedback |-> validation.errors])
              /\ gpc' = "loop"
              /\ UNCHANGED response
    /\ UNCHANGED << attempt, lastNumscript, current, validation, sent >>
    /\ UNCHANGED << variant, console, notGenerate >>

\* After the loop: no attempt was valid.
POST_giveUp ==
    /\ gpc = "after"
    /\ response' = Present([status |-> 422, success |-> FALSE,
                            error |-> << "Failed after ", "5", " attempts" >>,
                            lastError |-> lastError, lastNumscript |-> lastNumscript,
                            attempts |-> attempt])
    /\ gpc' = "responded"
    /\ UNCHANGED << attempt, lastError, currentPrompt, lastNumscript, current,
                    validation, sent >>
    /\ UNCHANGED << variant, console, notGenerate >>

NextGenerate ==
    \/ POST_receive
    \/ POST_loop
    \/ generateIntent_throws
    \/ generateIntent_returns
    \/ proc_error
    \/ proc_close
    \/ timeout_fires
    \/ POST_validated
    \/ POST_giveUp

\* Every awaited promise settles (the AI client gives up on a request that
\* gets no answer; validateWithMCP has its timer) and the handler's own
\* steps run to completion.
SpecGenerate ==
    InitGenerate /\ [][NextGenerate]_vars /\ WF_vars(NextGenerate)

(***************************************************************************)
(* The simulate route: POST and computeFinalBalances.                      *)
(***************************************************************************)
\* Bound of the model: the postings the interpreter returned.
MaxSimPostings ==
    2

Accounts ==
    {"a", "b"}
Assets ==
    {"USD/2", "EUR/2"}

\* A JavaScript number that is an integer: h * 2^53 + l, l being small.  A
\* double holds every integer below 2^53 in size and, from there on, only
\* every second, then every fourth, ... one.
Num(h, l) ==
    [h |-> h, l |-> l]

RECURSIVE ilog2(_)
ilog2(n) ==
    IF n <= 1 THEN 0 ELSE 1 + ilog2(n \div 2)

RECURSIVE pow2(_)
pow2(k) ==
    IF k = 0 THEN 1 ELSE 2 * pow2(k - 1)

\* The distance between neighbouring doubles around h * 2^53 + l, h >= 1.
spacing(h, l) ==
    IF l >= 0 THEN pow2(ilog2(h) + 1)
    ELSE IF h = 1 THEN 1
    ELSE pow2(ilog2(h - 1) + 1)

\* l rounded to the nearest multiple of s, a tie going to the even one.
nearest(l, s) ==
    LET q == l \div s
        r == l % s
    IN  IF 2 * r < s THEN q * s
        ELSE IF 2 * r > s THEN (q + 1) * s
        ELSE IF q % 2 = 0 THEN q * s ELSE (q + 1) * s

\* The double nearest to the integer x (round to nearest, ties to even).
toDouble(x) ==
    IF x.h = 0 THEN x
    ELSE IF x.h > 0 THEN Num(x.h, nearest(x.l, spacing(x.h, x.l)))
    ELSE Num(x.h, 0 - nearest(0 - x.l, spacing(0 - x.h, 0 - x.l)))

\* Number.NaN
NaN ==
    [nan |-> TRUE]

isNaN(x) ==
    "nan" \in DOMAIN x

\* x + y and x - y of JavaScript numbers.
plus(x, y) ==
    IF isNaN(x) \/ isNaN(y) THEN NaN ELSE toDouble(Num(x.h + y.h, x.l + y.l))
minus(x, y) ==
    IF isNaN(x) \/ isNaN(y) THEN NaN ELSE toDouble(Num(x.h - y.h, x.l - y.l))

\* Record<string, number>
AssetMaps ==
    UNION { [D -> {Num(0, 7)}] : D \in SUBSET Assets }

\* Record<string, Record<string, number>>: the balances of a request.
BalanceMaps ==
    UNION { [A -> AssetMaps] : A \in SUBSET Accounts }

\* The first fifteen digits of 2^53 = 9007199254740992.
S_2pow53_head ==
    << "9", "0", "0", "7", "1", "9", "9", "2", "5", "4", "7", "4", "0", "9", "9" >>

\* Amounts as the interpreter writes them: decimal integers, among them
\* 2^53 + 1.
SimAmounts ==
    { << "3" >>, << "0", "0", "7" >>, S_2pow53_head \o << "3" >> }

SimPostings ==
    [ source : Accounts, destination : Accounts, asset : Assets, amount : SimAmounts ]

digit(c) ==
    CASE c = "0" -> 0 [] c = "1" -> 1 [] c = "2" -> 2 [] c = "3" -> 3 [] c = "4" -> 4
      [] c = "5" -> 5 [] c = "6" -> 6 [] c = "7" -> 7 [] c = "8" -> 8 [] c = "9" -> 9
      [] OTHER -> -1

\* The value of the longest prefix of digits, acc being the value so far.
RECURSIVE digits(_, _)
digits(s, acc) ==
    IF s = <<>> \/ digit(s[1]) < 0 THEN acc
    ELSE digits(Tail(s), 10 * acc + digit(s[1]))

\* The integer a string of digits denotes: up to nine digits, or the
\* sixteen digits of a number from 2^53 + 0 to 2^53 + 7.
integerOf(s) ==
    IF Len(s) = 16 /\ SubSeq(s, 1, 15) = S_2pow53_head /\ digit(s[16]) >= 2
      THEN Num(1, digit(s[16]) - 2)
      ELSE Num(0, digits(s, 0))

\* parseInt(s, 10): an optional sign and the leading digits, as a double;
\* NaN when there is no digit.
parseInt(s) ==
    LET neg  == s # <<>> /\ s[1] = "-"
        rest == IF s # <<>> /\ s[1] \in {"-", "+"} THEN Tail(s) ELSE s
        n    == toDouble(integerOf(rest))
    IN  IF rest = <<>> \/ digit(rest[1]) < 0 THEN NaN
        ELSE IF neg THEN Num(0 - n.h, 0 - n.l) ELSE n

\* The object of an account in the request, and the one made for it in
\* computeFinalBalances.
RefOfRequest(account) ==
    << "balances", account >>
RefOfClone(account) ==
    << "finalBalances", account >>

\* m with m[k] = v, k being a key of m or not.
put(m, k, v) ==
    [x \in DOMAIN m \cup {k} |-> IF x = k THEN v ELSE m[x]]

\* The balances an account -> reference map stands for.
valueOf(refs) ==
    [account \in DOMAIN refs |-> heap[refs[account]]]

InitSimulate ==
    /\ variant = 1
    /\ pc = "idle"
    /\ fn = ""
    /\ arg = <<>>
    /\ idx = 0
    /\ postings = <<>>
    /\ ret = <<>>
    /\ error = ""
    /\ console = <<>>
    /\ calls = [c \in Callers |-> IdleFrame]
    /\ GenerateIdle
    /\ SimulateIdle
    /\ EvaluateIdle

\* POST: const balances = body.balances || {}; the interpreter has answered
\* and computeFinalBalances(balances, result.postings) is called.
POST_simulate ==
    /\ spc = "idle"
    /\ \E sentBalances \in {Absent} \cup { Present(b) : b \in BalanceMaps } :
         LET given == IF sentBalances.some THEN sentBalances.v ELSE << >> IN
         /\ body' = sentBalances
         /\ balances' = [account \in DOMAIN given |-> RefOfRequest(account)]
         /\ heap' = [r \in { RefOfRequest(account) : account \in DOMAIN given } |->
                       given[r[2]]]
    /\ spc' = "called"
    /\ UNCHANGED << finalBalances, applied, lastApplied, touched, simResponse >>
    /\ UNCHANGED notSimulate

\* cloneBalances storing the caller's asset maps themselves
\* (finalBalances[account] = assets).
cloneBalances_shared ==
    /\ spc = "called"
    /\ finalBalances' = balances
    /\ spc' = "loop"
    /\ UNCHANGED << body, balances, heap, applied, lastApplied, touched, simResponse >>
    /\ UNCHANGED notSimulate

\* for (const [account, assets] of Object.entries(initialBalances))
\*   finalBalances[account] = { ...assets };
cloneBalances ==
    /\ spc = "called"
    /\ finalBalances' = [account \in DOMAIN balances |-> RefOfClone(account)]
    /\ heap' = [r \in DOMAIN heap \cup { RefOfClone(account) : account \in DOMAIN balances }
                  |-> IF r \in DOMAIN heap THEN heap[r] ELSE heap[RefOfRequest(r[2])]]
    /\ spc' = "loop"
    /\ UNCHANGED << body, balances, applied, lastApplied, touched, simResponse >>
    /\ UNCHANGED notSimulate

\* The references and the heap after `if (!finalBalances[account])
\* finalBalances[account] = {}; if (finalBalances[account][asset] ===
\* undefined) finalBalances[account][asset] = 0`.
ensure(state, account, asset) ==
    LET refs1 == IF account \in DOMAIN state.refs THEN state.refs
                 ELSE put(state.refs, account, RefOfClone(account))
        heap1 == IF account \in DOMAIN state.refs THEN state.heap
                 ELSE put(state.heap, RefOfClone(account), << >>)
        r     == refs1[account]
        heap2 == IF asset \in DOMAIN heap1[r] THEN heap1
                 ELSE put(heap1, r, put(heap1[r], asset, Num(0, 0)))
    IN  [refs |-> refs1, heap |-> heap2]

\* state after finalBalances[account][asset] -= amount.
debit(state, account, asset, amount) ==
    LET r == state.refs[account] IN
    [refs |-> state.refs,
     heap |-> put(state.heap, r,
                  put(state.heap[r], asset, minus(state.heap[r][asset], amount)))]

\* state after finalBalances[account][asset] += amount.
credit(state, account, asset, amount) ==
    LET r == state.refs[account] IN
    [refs |-> state.refs,
     heap |-> put(state.heap, r,
                  put(state.heap[r], asset, plus(state.heap[r][asset], amount)))]

\* One round of `for (const posting of postings)`.
applyPosting ==
    /\ spc = "loop"
    /\ applied < MaxSimPostings
    /\ \E p \in SimPostings :
         LET amount == parseInt(p.amount)
             s0 == [refs |-> finalBalances, heap |-> heap]
             s1 == ensure(s0, p.source, p.asset)
             s2 == ensure(s1, p.destination, p.asset)
             s3 == debit(s2, p.source, p.asset, amount)
             s4 == credit(s3, p.destination, p.asset, amount)
         IN  /\ finalBalances' = s4.refs
             /\ heap' = s4.heap
             /\ lastApplied' = Present(p)
             /\ touched' = touched \cup {p.source, p.destination}
    /\ applied' = applied + 1
    /\ UNCHANGED << spc, body, balances, simResponse >>
    /\ UNCHANGED notSimulate

\* The list of postings is at its end: return finalBalances.
returnBalances ==
    /\ spc = "loop"
    /\ spc' = "returned"
    /\ UNCHANGED << body, balances, finalBalances, heap, applied, lastApplied, touched,
                    simResponse >>
    /\ UNCHANGED notSimulate

\* POST answers { success: true, ..., initialBalances: balances, finalBalances }.
POST_respond ==
    /\ spc = "returned"
    /\ simResponse' = Present([success |-> TRUE,
                               initialBalances |-> valueOf(balances),
                               finalBalances |-> valueOf(finalBalances)])
    /\ spc' = "responded"
    /\ UNCHANGED << body, balances, finalBalances, heap, applied, lastApplied, touched >>
    /\ UNCHANGED notSimulate

NextSimulate ==
    \/ POST_simulate
    \/ cloneBalances
    \/ applyPosting
    \/ returnBalances
    \/ POST_respond

SpecSimulate ==
    InitSimulate /\ [][NextSimulate]_vars

(***************************************************************************)
(* Reading the rendered text.                                              *)
(***************************************************************************)
RECURSIVE lines(_)
lines(s) ==
    IF \A i \in 1..Len(s) : s[i] # "\n" THEN << s >>
    ELSE LET k == CHOOSE i \in 1..Len(s) :
                      s[i] = "\n" /\ \A j \in 1..(i - 1) : s[j] # "\n"
         IN  << SubSeq(s, 1, k - 1) >> \o lines(SubSeq(s, k + 1, Len(s)))

\* The allocation lines of a rendered block: what is between "{" and "  }".
ruleLines(block) ==
    LET ls == lines(block) IN SubSeq(ls, 2, Len(ls) - 1)

isRemainingLine(l) ==
    startsWith(l, S_remaining_to)
isMaxLine(l) ==
    startsWith(l, S_max_open)

countSends(script) ==
    Cardinality({ i \in 1..Len(lines(script)) : startsWith(lines(script)[i], S_send) })

hasRemaining(rules) ==
    \E i \in 1..Len(rules) : rules[i].amount_mode = "remaining"

isMixedSplit(p) ==
    /\ p.destination_type = "split"
    /\ p.split_rules.some
    /\ hasMax(p.split_rules.v)
    /\ hasFraction(p.split_rules.v)

isWorld(p) ==
    p.source \in {S_world, S_at_world}

(***************************************************************************)
(* The simulate route's callMCPEvaluate: one child process, spoken to over *)
(* its stdin and stdout.  A line of the child's output is two pieces of    *)
(* text and a line break, so that a chunk can end inside a line or between *)
(* a line and its line break.                                              *)
(***************************************************************************)
\* How many tool calls the child answers.
MaxResults ==
    1

\* {"jsonrpc":"2.0","id":0,"result":{"protocolVersion":...}}
InitResponse ==
    << "I1", "I2", "\n" >>

\* {"jsonrpc":"2.0","id":1,"result":{"content":[{"type":"text","text":...}]}}
ToolResult ==
    << "R1", "R2", "\n" >>

\* {"jsonrpc":"2.0","id":...,"error":{"message":...}}
RpcError ==
    << "E1", "E2", "\n" >>

\* What JSON.parse(line) gives: a response when the line is whole,
\* a SyntaxError otherwise.
parse(line) ==
    IF line = << "I1", "I2" >> THEN "initialize response"
    ELSE IF line = << "R1", "R2" >> THEN "tool result"
    ELSE IF line = << "E1", "E2" >> THEN "error"
    ELSE "SyntaxError"

\* resolve(...) or reject(...): the first one settles the promise, a later
\* one has no effect.
settle(p, by) ==
    IF p.settled THEN p ELSE [settled |-> TRUE, by |-> by]

\* child.kill()
kill(c) ==
    IF c = "running" THEN "killed" ELSE c

\* child.stdin.write(message): nothing is written once the stream was ended.
write(st, message) ==
    IF st.ended THEN st ELSE [st EXCEPT !.stdin = Append(@, message)]

\* The body of `for (const line of lines)` for one line.
handleLine(st, line) ==
    LET response_ == parse(line)
        s1 == IF response_ = "initialize response"
                THEN write(write(st, "initialized"), "evaluate")
                ELSE st
        s2 == IF response_ = "tool result"
                THEN [s1 EXCEPT !.ended = TRUE, !.child = kill(@),
                                !.promise = settle(@, "result")]
                ELSE s1
        s3 == IF response_ = "error"
                THEN [s2 EXCEPT !.ended = TRUE, !.child = kill(@),
                                !.promise = settle(@, "MCP error")]
                ELSE s2
    IN  IF line = << >> THEN st ELSE s3

RECURSIVE handleLines(_, _)
handleLines(st, ls) ==
    IF ls = << >> THEN st
    ELSE handleLines(handleLine(st, Head(ls)), Tail(ls))

InitEvaluate ==
    /\ variant = 1
    /\ console = << >>
    /\ pc = "idle"
    /\ fn = ""
    /\ arg = << >>
    /\ idx = 0
    /\ postings = << >>
    /\ ret = << >>
    /\ error = ""
    /\ calls = [c \in Callers |-> IdleFrame]
    /\ GenerateIdle
    /\ SimulateIdle
    /\ EvaluateIdle

\* callMCPEvaluate(script, balances, vars): spawns the child, registers the
\* handlers, writes the initialize request and starts the timer.
callMCPEvaluate ==
    /\ epc = "idle"
    /\ epc' = "called"
    /\ child' = "running"
    /\ stdin' = << "initialize" >>
    /\ timer' = TRUE
    /\ UNCHANGED << ended, readPos, results, pipe, stdout, promise >>
    /\ UNCHANGED notEvaluate

\* The child reads the next message of its stdin and answers it: the
\* initialize request and a tool call with a response or an error, a
\* notification with nothing.
child_reads ==
    /\ child = "running"
    /\ readPos < Len(stdin)
    /\ readPos' = readPos + 1
    /\ LET message == stdin[readPos + 1] IN
       IF message = "initialize"
         THEN /\ \E l \in {InitResponse, RpcError} : pipe' = pipe \o l
              /\ UNCHANGED results
       ELSE IF message = "evaluate" /\ results < MaxResults
         THEN /\ \E l \in {ToolResult, RpcError} : pipe' = pipe \o l
              /\ results' = results + 1
       ELSE UNCHANGED << pipe, results >>
    /\ UNCHANGED << epc, child, stdin, ended, stdout, timer, promise >>
    /\ UNCHANGED notEvaluate

\* child.stdout.on("data"): a chunk of what the child wrote arrives, is
\* appended to stdout, and every line of stdout is handled.
stdout_data ==
    /\ child \in {"running", "killed"}
    /\ pipe # << >>
    /\ \E k \in 1..Len(pipe) :
         LET st == handleLines([stdin |-> stdin, ended |-> ended, child |-> child,
                                promise |-> promise],
                               lines(stdout \o SubSeq(pipe, 1, k)))
         IN  /\ stdout' = stdout \o SubSeq(pipe, 1, k)
             /\ pipe' = SubSeq(pipe, k + 1, Len(pipe))
             /\ stdin' = st.stdin
             /\ ended' = st.ended
             /\ child' = st.child
             /\ promise' = st.promise
    /\ UNCHANGED << epc, readPos, results, timer >>
    /\ UNCHANGED notEvaluate

\* child.on("error"): the child could not be started.
child_error ==
    /\ epc = "called"
    /\ child = "running"
    /\ readPos = 0
    /\ child' = "failed"
    /\ promise' = settle(promise, "spawn error")
    /\ UNCHANGED << epc, stdin, ended, readPos, results, pipe, stdout, timer >>
    /\ UNCHANGED notEvaluate

\* child.on("close"): the child is gone and its output delivered; code is
\* null when a signal ended it.
child_close ==
    /\ child \in {"running", "killed"}
    /\ pipe = << >>
    /\ \E code \in (IF child = "killed" THEN {"null"} ELSE {"0", "1"}) :
         promise' = IF code # "0" /\ code # "null" THEN settle(promise, "exit")
                    ELSE promise
    /\ child' = "closed"
    /\ UNCHANGED << epc, stdin, ended, readPos, results, pipe, stdout, timer >>
    /\ UNCHANGED notEvaluate

\* The timer of setTimeout(..., 10000) fires.
evaluate_timeout ==
    /\ epc = "called"
    /\ timer
    /\ timer' = FALSE
    /\ child' = kill(child)
    /\ promise' = settle(promise, "timeout")
    /\ UNCHANGED << epc, stdin, ended, readPos, results, pipe, stdout >>
    /\ UNCHANGED notEvaluate

NextEvaluate ==
    \/ callMCPEvaluate
    \/ child_reads
    \/ stdout_data
    \/ child_error
    \/ child_close
    \/ evaluate_timeout

\* The timer is never cleared, so it fires.
SpecEvaluate ==
    InitEvaluate /\ [][NextEvaluate]_vars /\ WF_vars(evaluate_timeout)

(***************************************************************************)
(* C1: for every posting whose source is "world" or "@world", whatever its *)
(* source_overdraft and overdraft_limit, formatSource returns exactly      *)
(* "@world", with no overdraft-allowance suffix; the source line of the    *)
(* statement compilePosting renders for it is `  source = @world`.         *)
(***************************************************************************)
C1_WorldSourceNeverAnnotated ==
    /\ (fn = "formatSource" /\ pc = "returned" /\ isWorld(arg))
          => ret = S_at_world
    /\ (fn = "compilePosting" /\ pc = "returned" /\ isWorld(arg))
          => lines(ret)[2] = S_source_eq \o S_at_world

C1_Witness ==
    /\ fn = "formatSource"
    /\ pc = "returned"
    /\ arg.source = S_at_world
    /\ arg.source_overdraft = "limited"
    /\ arg.overdraft_limit = Present(Val_5)
    /\ ret = S_at_world

(***************************************************************************)
(* C2: when the rules hold a remaining rule together with fraction or max  *)
(* rules, in any input order, the block formatSplitDestination renders has *)
(* one line per rule, every fraction/max line before every remaining line, *)
(* and a remaining line last.                                              *)
(***************************************************************************)
C2_RemainingRenderedLast ==
    ( /\ fn = "formatSplitDestination"
      /\ pc = "returned"
      /\ hasRemaining(arg.rules)
      /\ hasMax(arg.rules) \/ hasFraction(arg.rules) )
    => LET ls == ruleLines(ret) IN
       /\ Len(ls) = Len(arg.rules)
       /\ Cardinality({ i \in 1..Len(ls) : isRemainingLine(ls[i]) })
            = Cardinality({ i \in 1..Len(arg.rules) :
                              arg.rules[i].amount_mode = "remaining" })
       /\ \A i, j \in 1..Len(ls) :
            (isRemainingLine(ls[i]) /\ ~isRemainingLine(ls[j])) => j < i
       /\ isRemainingLine(ls[Len(ls)])

C2_Witness ==
    /\ fn = "formatSplitDestination"
    /\ pc = "returned"
    /\ Len(arg.rules) = 3
    /\ arg.rules[1].amount_mode = "remaining"
    /\ arg.rules[2].amount_mode = "max"
    /\ arg.rules[3].amount_mode = "fraction"
    /\ isRemainingLine(ruleLines(ret)[3])

(***************************************************************************)
(* C3: rendering a split block whose rules hold at least one fraction rule *)
(* and at least one max rule writes the conflicting-split-modes warning.   *)
(***************************************************************************)
C3_MixedModesAlwaysWarn ==
    ( /\ fn = "formatSplitDestination"
      /\ pc = "returned"
      /\ hasMax(arg.rules)
      /\ hasFraction(arg.rules) )
    => \E i \in 1..Len(console) : console[i] = WarnMixed

(***************************************************************************)
(* C4: in a block that holds both fraction and max rules, every fraction   *)
(* and max rule is rendered in the capped form `max [asset value] to       *)
(* @target` and no percentage line appears.                                *)
(***************************************************************************)
C4_MixedRenderedAsCapped ==
    ( /\ fn = "formatSplitDestination"
      /\ pc = "returned"
      /\ hasMax(arg.rules)
      /\ hasFraction(arg.rules) )
    => \A i \in 1..Len(ruleLines(ret)) :
          LET l == ruleLines(ret)[i] IN
          /\ ~includes(l, S_percent)
          /\ isMaxLine(l) \/ isRemainingLine(l)

(***************************************************************************)
(* C5: a split block that mixes fraction and max rules is not fatal:       *)
(* compilePosting returns a statement for it, compileToNumscript never     *)
(* throws at such a posting, and the script returned for an intent holding *)
(* one has one send statement per posting.                                 *)
(***************************************************************************)
C5_MixedSplitNotFatal ==
    /\ (fn = "compilePosting" /\ pc \in {"returned", "thrown"} /\ isMixedSplit(arg))
          => (pc = "returned" /\ countSends(ret) = 1)
    /\ (fn = "compileToNumscript" /\ pc = "thrown")
          => ~isMixedSplit(arg.postings[idx])
    /\ ( /\ fn = "compileToNumscript"
         /\ pc = "returned"
         /\ \E i \in 1..Len(arg.postings) : isMixedSplit(arg.postings[i]) )
          => countSends(ret) = Len(arg.postings)

C5_Witness ==
    /\ fn = "compileToNumscript"
    /\ pc = "returned"
    /\ Len(arg.postings) = 2
    /\ isMixedSplit(arg.postings[2])
    /\ countSends(ret) = 2

(***************************************************************************)
(* C6: compilePosting throws, and returns no statement text, when          *)
(* destination_type is simple and simple_destination is absent, and when   *)
(* destination_type is split and split_rules is absent.                    *)
(***************************************************************************)
destinationAbsent(p) ==
    \/ p.destination_type = "simple" /\ ~p.simple_destination.some
    \/ p.destination_type = "split" /\ ~p.split_rules.some

C6_AbsentDestinationThrows ==
    (fn = "compilePosting" /\ pc \in {"returned", "thrown"} /\ destinationAbsent(arg))
        => (pc = "thrown" /\ error = ErrInvalidDestination /\ ret = <<>>)

C6_Witness ==
    /\ fn = "compilePosting"
    /\ pc = "thrown"
    /\ arg.destination_type = "split"
    /\ ~arg.split_rules.some
    /\ arg.simple_destination = Present(Acc_c)
    /\ ret = <<>>

(***************************************************************************)
(* C7: a posting with destination_type split and a present but empty       *)
(* split_rules list makes compilation fail: no script is returned for an   *)
(* intent that holds one.                                                  *)
(***************************************************************************)
emptySplit(p) ==
    p.destination_type = "split" /\ p.split_rules.some /\ p.split_rules.v = <<>>

C7_EmptySplitRejected ==
    /\ (fn = "compileToNumscript" /\ pc = "returned")
          => \A i \in 1..Len(arg.postings) : ~emptySplit(arg.postings[i])
    /\ (fn = "compilePosting" /\ pc \in {"returned", "thrown"} /\ emptySplit(arg))
          => pc = "thrown"

(***************************************************************************)
(* C8: if any posting of an intent is malformed (destination data absent,  *)
(* or an empty split_rules list, for its destination_type), at any index,  *)
(* compileToNumscript throws and returns no script.                        *)
(***************************************************************************)
malformedPosting(p) ==
    destinationAbsent(p) \/ emptySplit(p)

C8_MalformedPostingAborts ==
    /\ (fn = "compileToNumscript" /\ pc = "returned")
          => \A i \in 1..Len(arg.postings) : ~malformedPosting(arg.postings[i])
    /\ (fn = "compileToNumscript" /\ pc = "thrown") => ret = <<>>

(***************************************************************************)
(* C9 as claimed: the error raised for a malformed posting identifies the  *)
(* posting's index and its defect, so that a failure at another index or   *)
(* with another defect raises a distinguishable error.                     *)
(***************************************************************************)
defect(p) ==
    IF p.destination_type = "simple" THEN "no simple destination" ELSE "no split rules"

\* The error compileToNumscript raises when posting q, at index j, is the
\* first one compilePosting rejects: Array.map hands the index to the
\* callback, which takes the posting alone.
errorRaisedAt(j, q) ==
    IF variant = 1 THEN compilePosting(q).error ELSE compilePosting2(q).error

rejected(q) ==
    IF variant = 1 THEN compilePosting(q).threw ELSE compilePosting2(q).threw

C9_ErrorIdentifiesPosting ==
    (fn = "compileToNumscript" /\ pc = "thrown")
        => \A j \in 1..MaxPostings, q \in IntentPostings :
              (rejected(q) /\ (j # idx \/ defect(q) # defect(arg.postings[idx])))
                  => errorRaisedAt(j, q) # error

(***************************************************************************)
(* C9 as amended: every error raised for a malformed posting, by           *)
(* compilePosting or through compileToNumscript, is the one fixed message  *)
(* "Invalid destination configuration", whatever the index and the defect. *)
(***************************************************************************)
C9_ErrorIsGeneric ==
    (fn \in {"compilePosting", "compileToNumscript"} /\ pc = "thrown")
        => error = ErrInvalidDestination

C9_Witness ==
    /\ fn = "compileToNumscript"
    /\ pc = "thrown"
    /\ idx = 2
    /\ arg.postings[idx].destination_type = "split"
    /\ ~arg.postings[idx].split_rules.some
    /\ error = ErrInvalidDestination

(***************************************************************************)
(* C10 as claimed: for every intent in which each posting is simple with a *)
(* simple_destination present, or split with at least one rule,            *)
(* compileToNumscript does not throw.                                      *)
(***************************************************************************)
consistentPosting(p) ==
    \/ p.destination_type = "simple" /\ p.simple_destination.some
    \/ p.destination_type = "split" /\ p.split_rules.some /\ Len(p.split_rules.v) >= 1

C10_ConsistentIntentCompiles ==
    (fn = "compileToNumscript" /\ \A i \in 1..Len(arg.postings) :
                                     consistentPosting(arg.postings[i]))
        => pc # "thrown"

(***************************************************************************)
(* C10 as amended: for every intent in which each posting is simple with a *)
(* non-empty simple_destination, or split with at least one rule,          *)
(* compileToNumscript does not throw, whatever the sources, overdraft      *)
(* settings, amounts, number of postings and metadata; what it returns is  *)
(* a script with one send statement per posting.                           *)
(***************************************************************************)
wellFormedPosting(p) ==
    \/ p.destination_type = "simple" /\ p.simple_destination.some
                                     /\ p.simple_destination.v # <<>>
    \/ p.destination_type = "split" /\ p.split_rules.some /\ Len(p.split_rules.v) >= 1

C10_WellFormedIntentCompiles ==
    (fn = "compileToNumscript" /\ \A i \in 1..Len(arg.postings) :
                                     wellFormedPosting(arg.postings[i]))
        => /\ pc # "thrown"
           /\ error = ""
           /\ pc = "returned" => countSends(ret) = Len(arg.postings)

C10_Witness ==
    /\ fn = "compileToNumscript"
    /\ pc = "returned"
    /\ Len(arg.postings) = 2
    /\ arg.postings[1].amount = S_star
    /\ arg.postings[1].source_overdraft = "limited"
    /\ arg.postings[2].destination_type = "split"
    /\ arg.metadata = Present(<<>>)
    /\ countSends(ret) = 2

(***************************************************************************)
(* Reading a script: its statements.                                       *)
(***************************************************************************)
isSendLine(l) ==
    startsWith(l, S_send)
isMetaLine(l) ==
    startsWith(l, << "s", "e", "t", "_", "t", "x", "_", "m", "e", "t", "a", "(" >>)
isCommentLine(l) ==
    startsWith(l, << "/", "/" >>)
isStatementStart(l) ==
    isSendLine(l) \/ isMetaLine(l)

\* The parts of a script that "\n\n" separates.
RECURSIVE chunks(_)
chunks(s) ==
    IF \A i \in 1..(Len(s) - 1) : ~(s[i] = "\n" /\ s[i + 1] = "\n") THEN << s >>
    ELSE LET k == CHOOSE i \in 1..(Len(s) - 1) :
                      /\ s[i] = "\n" /\ s[i + 1] = "\n"
                      /\ \A j \in 1..(i - 1) : ~(s[j] = "\n" /\ s[j + 1] = "\n")
         IN  << SubSeq(s, 1, k - 1) >> \o chunks(SubSeq(s, k + 2, Len(s)))

sendStatements(script) ==
    SelectSeq(chunks(script), isSendLine)
metaStatements(script) ==
    SelectSeq(chunks(script), isMetaLine)

renderedPosting(p) ==
    IF variant = 1 THEN compilePosting(p).ret ELSE compilePosting2(p).ret

metadataOf(intent) ==
    IF intent.metadata.some THEN intent.metadata.v ELSE <<>>

allWellFormed(intent) ==
    \A i \in 1..Len(intent.postings) : wellFormedPosting(intent.postings[i])

(***************************************************************************)
(* C11: for an intent with N well-formed postings and M metadata entries   *)
(* (absent metadata counting as M = 0), the script compileToNumscript      *)
(* returns holds exactly N send statements and exactly M set_tx_meta       *)
(* statements, the i-th send statement being the rendering of the i-th     *)
(* posting and the j-th set_tx_meta statement that of the j-th entry.      *)
(***************************************************************************)
C11_StatementCountAndOrder ==
    (fn = "compileToNumscript" /\ pc = "returned" /\ allWellFormed(arg))
    => LET sends == sendStatements(ret)
           metas == metaStatements(ret)
           md    == metadataOf(arg)
       IN  /\ Len(sends) = Len(arg.postings)
           /\ countSends(ret) = Len(arg.postings)
           /\ \A i \in 1..Len(sends) : sends[i] = renderedPosting(arg.postings[i])
           /\ Len(metas) = Len(md)
           /\ \A j \in 1..Len(metas) :
                metas[j] = S_meta_open \o md[j].key \o S_meta_mid \o md[j].value
                               \o S_meta_close

C11_Witness ==
    /\ fn = "compileToNumscript"
    /\ pc = "returned"
    /\ allWellFormed(arg)
    /\ Len(arg.postings) = 2
    /\ arg.postings[1] # arg.postings[2]
    /\ arg.metadata = Present(<< MetaEntry2, MetaEntry >>)
    /\ Len(sendStatements(ret)) = 2
    /\ Len(metaStatements(ret)) = 2

consecutiveStarts(ls, a, b) ==
    /\ a < b
    /\ isStatementStart(ls[a])
    /\ isStatementStart(ls[b])
    /\ \A k \in (a + 1)..(b - 1) : ~isStatementStart(ls[k])

blankLinesBetween(ls, a, b) ==
    Cardinality({ k \in (a + 1)..(b - 1) : ls[k] = <<>> })

(***************************************************************************)
(* C13 as claimed: in the script of an intent of well-formed postings,     *)
(* every two consecutive statements, the last send and the first           *)
(* set_tx_meta included, are separated by exactly one blank line, and the  *)
(* script does not end with a separator.                                   *)
(***************************************************************************)
C13_OneBlankLineEverywhere ==
    (fn = "compileToNumscript" /\ pc = "returned" /\ allWellFormed(arg))
    => LET ls == lines(ret) IN
       /\ \A a, b \in 1..Len(ls) :
            consecutiveStarts(ls, a, b) => blankLinesBetween(ls, a, b) = 1
       /\ ls[Len(ls)] # <<>>

(***************************************************************************)
(* C13 as amended: two consecutive send statements, and two consecutive    *)
(* set_tx_meta statements, are separated by exactly one blank line; the    *)
(* last send statement and the first set_tx_meta statement are separated   *)
(* by three blank lines; the script does not end with a separator.         *)
(***************************************************************************)
C13_BlankLinesBetweenStatements ==
    (fn = "compileToNumscript" /\ pc = "returned" /\ allWellFormed(arg))
    => LET ls == lines(ret) IN
       /\ \A a, b \in 1..Len(ls) :
            consecutiveStarts(ls, a, b)
              => blankLinesBetween(ls, a, b)
                   = IF isSendLine(ls[a]) /\ isMetaLine(ls[b]) THEN 3 ELSE 1
       /\ ls[Len(ls)] # <<>>

C13_Witness ==
    /\ fn = "compileToNumscript"
    /\ pc = "returned"
    /\ allWellFormed(arg)
    /\ Len(arg.postings) = 2
    /\ arg.metadata = Present(<< MetaEntry, MetaEntry >>)
    /\ Len(metaStatements(ret)) = 2

(***************************************************************************)
(* C14: the first line of the statement compilePosting renders is          *)
(* `send [<asset> <amount>] (` with the amount string unchanged: for       *)
(* amount "*" it is exactly `send [<asset> *] (`, no number substituted.   *)
(***************************************************************************)
C14_AmountPassedThrough ==
    (fn = "compilePosting" /\ pc = "returned")
    => LET header == lines(ret)[1] IN
       /\ header = S_send \o S_open_bracket \o arg.asset \o S_space \o arg.amount
                       \o S_close_bracket \o S_send_open
       /\ arg.amount = S_star
            => header = << "s", "e", "n", "d", " ", "[" >> \o arg.asset
                            \o << " ", "*", "]", " ", "(" >>

C14_Witness ==
    /\ fn = "compilePosting"
    /\ pc = "returned"
    /\ arg.amount = S_star
    /\ arg.asset = EUR2
    /\ lines(ret)[1] = << "s", "e", "n", "d", " ", "[", "E", "U", "R", "/", "2",
                          " ", "*", "]", " ", "(" >>

(***************************************************************************)
(* C15: formatAccount is idempotent: formatting what it returned returns   *)
(* the same string, for every account string, "world", "@world" and ""     *)
(* included.                                                               *)
(***************************************************************************)
C15_FormatAccountIdempotent ==
    (fn = "formatAccount" /\ pc = "returned") => formatAccount(ret) = ret

C15_Witness ==
    /\ fn = "formatAccount"
    /\ pc = "returned"
    /\ arg = Acc_at_b
    /\ ret = Acc_at_b

(***************************************************************************)
(* C16: formatAccount returns "@world" for "world", its input unchanged    *)
(* when the input starts with "@", and otherwise the input prefixed with   *)
(* a single "@"; every result starts with "@" and no input raises an       *)
(* error.                                                                  *)
(***************************************************************************)
C16_FormatAccountCases ==
    /\ (fn = "formatAccount" /\ pc # "idle") => (pc = "returned" /\ error = "")
    /\ (fn = "formatAccount" /\ pc = "returned")
       => /\ arg = S_world => ret = S_at_world
          /\ (Len(arg) > 0 /\ arg[1] = "@") => ret = arg
          /\ ~(Len(arg) > 0 /\ arg[1] = "@")
               => (Len(ret) = Len(arg) + 1 /\ SubSeq(ret, 2, Len(ret)) = arg)
          /\ Len(ret) > 0 /\ ret[1] = "@"

C16_Witness ==
    /\ fn = "formatAccount"
    /\ pc = "returned"
    /\ arg = << "a", "@", "b" >>
    /\ ret = << "@", "a", "@", "b" >>

(***************************************************************************)
(* C17: for a posting whose source is not "world"/"@world" and whose       *)
(* source_overdraft is unbounded, formatSource returns the formatted       *)
(* account followed by " allowing unbounded overdraft", whether or not an  *)
(* overdraft_limit is given.                                               *)
(***************************************************************************)
C17_UnboundedSuffix ==
    ( /\ fn = "formatSource"
      /\ pc = "returned"
      /\ ~isWorld(arg)
      /\ arg.source_overdraft = "unbounded" )
    => ret = formatAccount(arg.source) \o S_unbounded_suffix

C17_Witness ==
    /\ fn = "formatSource"
    /\ pc = "returned"
    /\ arg.source = Acc_a
    /\ arg.source_overdraft = "unbounded"
    /\ arg.overdraft_limit = Present(Val_5)
    /\ ret = << "@", "a" >> \o S_unbounded_suffix

(***************************************************************************)
(* C18 as claimed: for a posting whose source is not "world"/"@world",     *)
(* whose source_overdraft is limited and whose overdraft_limit is present, *)
(* formatSource returns the formatted account followed by                  *)
(* " allowing overdraft up to [<asset> <overdraft_limit>]".                *)
(***************************************************************************)
limitedSource(p) ==
    formatAccount(p.source) \o S_limited_suffix \o p.asset \o S_space
        \o p.overdraft_limit.v \o S_close_bracket

C18_LimitedSuffixWhenPresent ==
    ( /\ fn = "formatSource"
      /\ pc = "returned"
      /\ ~isWorld(arg)
      /\ arg.source_overdraft = "limited"
      /\ arg.overdraft_limit.some )
    => ret = limitedSource(arg)

(***************************************************************************)
(* C18 as amended: the same, for an overdraft_limit that is present and    *)
(* not the empty string; with the empty string as limit formatSource       *)
(* returns the formatted account alone.                                    *)
(***************************************************************************)
C18_LimitedSuffixWhenNonEmpty ==
    ( /\ fn = "formatSource"
      /\ pc = "returned"
      /\ ~isWorld(arg)
      /\ arg.source_overdraft = "limited"
      /\ arg.overdraft_limit.some )
    => ret = IF arg.overdraft_limit.v # <<>> THEN limitedSource(arg)
                                             ELSE formatAccount(arg.source)

C18_Witness ==
    /\ fn = "formatSource"
    /\ pc = "returned"
    /\ arg.source = Acc_at_b
    /\ arg.source_overdraft = "limited"
    /\ arg.overdraft_limit = Present(Val_5)
    /\ arg.asset = EUR2
    /\ ret = Acc_at_b \o S_limited_suffix \o EUR2 \o << " ", "5", "]" >>

(***************************************************************************)
(* C19: for a posting whose source_overdraft is none, or is limited with   *)
(* no overdraft_limit, formatSource returns the formatted account alone,   *)
(* also when an overdraft_limit is given together with none.               *)
(***************************************************************************)
C19_NoSuffix ==
    ( /\ fn = "formatSource"
      /\ pc = "returned"
      /\ \/ arg.source_overdraft = "none"
         \/ arg.source_overdraft = "limited" /\ ~arg.overdraft_limit.some )
    => /\ ret = formatAccount(arg.source)
       /\ ~includes(ret, << "o", "v", "e", "r", "d", "r", "a", "f", "t" >>)

C19_Witness ==
    /\ fn = "formatSource"
    /\ pc = "returned"
    /\ arg.source = Acc_a
    /\ arg.source_overdraft = "none"
    /\ arg.overdraft_limit = Present(Val_5)
    /\ ret = << "@", "a" >>

(***************************************************************************)
(* C20: a fraction rule renders as `<value> to @<target>`, where "%" is    *)
(* appended exactly when the value holds none: a value carrying "%" is     *)
(* emitted unchanged and a value without one gets exactly one appended.    *)
(***************************************************************************)
percentCount(s) ==
    Cardinality({ i \in 1..Len(s) : s[i] = "%" })

C20_FractionPercentSigil ==
    (fn = "formatSplitRule" /\ pc = "returned" /\ arg.rule.amount_mode = "fraction")
    => LET v == arg.rule.value IN
       /\ ret = S_indent \o (IF percentCount(v) = 0 THEN v \o << "%" >> ELSE v)
                    \o S_to \o formatAccount(arg.rule.target)
       /\ percentCount(ret) = IF percentCount(v) = 0 THEN 1 ELSE percentCount(v)

C20_Witness ==
    /\ fn = "formatSplitRule"
    /\ pc = "returned"
    /\ arg.rule = Rule(Acc_a, "fraction", Val_5pct)
    /\ ret = << " ", " ", " ", " ", "5", "%", " ", "t", "o", " ", "@", "a" >>

(***************************************************************************)
(* C21: a max rule renders as `    max [<asset> <value>] to @<target>`,    *)
(* the asset being the asset of the enclosing posting and the value the    *)
(* rule's value unchanged; every max line of a posting carries the asset   *)
(* of that posting's send header.                                          *)
(***************************************************************************)
isMaxRule(r) ==
    r.amount_mode = "max"

maxLine(rule, asset) ==
    << " ", " ", " ", " ", "m", "a", "x", " ", "[" >> \o asset \o << " " >>
        \o rule.value \o << "]", " ", "t", "o", " " >> \o formatAccount(rule.target)

C21_MaxRuleUsesPostingAsset ==
    /\ (fn = "formatSplitRule" /\ arg.rule.amount_mode = "max")
         => ret = maxLine(arg.rule, arg.asset)
    /\ (fn = "compilePosting" /\ pc = "returned"
          /\ arg.destination_type = "split" /\ truthyArray(arg.split_rules))
         => LET ls       == lines(ret)
                maxLines == SelectSeq(ls, isMaxLine)
                maxRules == SelectSeq(arg.split_rules.v, isMaxRule)
            IN  /\ Len(maxLines) = Len(maxRules)
                /\ \A i \in 1..Len(maxRules) :
                     maxLines[i] = maxLine(maxRules[i], arg.asset)
                /\ startsWith(ls[1], S_send \o S_open_bracket \o arg.asset \o S_space)

C21_Witness ==
    /\ fn = "compilePosting"
    /\ pc = "returned"
    /\ arg.asset = EUR2
    /\ arg.destination_type = "split"
    /\ arg.split_rules.some
    /\ Len(SelectSeq(arg.split_rules.v, isMaxRule)) = 2
    /\ \E i \in 1..Len(lines(ret)) :
         lines(ret)[i] = << " ", " ", " ", " ", "m", "a", "x", " ", "[", "E", "U", "R",
                            "/", "2", " ", "9", "]", " ", "t", "o", " ", "@", "b" >>

(***************************************************************************)
(* C22: every metadata entry renders as `set_tx_meta("<key>", "<value>")`  *)
(* with key and value unchanged (nothing escaped, trimmed or rejected),    *)
(* one statement per entry in input order, duplicates of a key included;   *)
(* the script compileToNumscript returns holds exactly these statements.   *)
(***************************************************************************)
metaStatement(m) ==
    << "s", "e", "t", "_", "t", "x", "_", "m", "e", "t", "a", "(", "\"" >> \o m.key
        \o << "\"", ",", " ", "\"" >> \o m.value \o << "\"", ")" >>

C22_MetadataVerbatim ==
    /\ fn = "compileMetadata"
         => /\ Len(ret) = Len(arg)
            /\ \A i \in 1..Len(arg) : ret[i] = metaStatement(arg[i])
    /\ (fn = "compileToNumscript" /\ pc = "returned")
         => LET md == metadataOf(arg) IN
            metaStatements(ret) = [i \in 1..Len(md) |-> metaStatement(md[i])]

C22_Witness ==
    /\ fn = "compileMetadata"
    /\ Len(arg) = 2
    /\ arg[1].key = arg[2].key
    /\ arg[1].value = << "a", "\"", "b" >>
    /\ arg[2].value = <<>>
    /\ arg[1].key = << " ", "k", " " >>
    /\ ret = << << "s", "e", "t", "_", "t", "x", "_", "m", "e", "t", "a", "(", "\"",
                   " ", "k", " ", "\"", ",", " ", "\"", "a", "\"", "b", "\"", ")" >>,
                << "s", "e", "t", "_", "t", "x", "_", "m", "e", "t", "a", "(", "\"",
                   " ", "k", " ", "\"", ",", " ", "\"", "\"", ")" >> >>

(***************************************************************************)
(* C23: compileToNumscript leaves its input alone: from the call until the *)
(* caller has taken the result or caught the Error, no step changes the    *)
(* intent, its postings or the order of any split_rules list (the output   *)
(* is re-sorted on a copy).                                                *)
(***************************************************************************)
C23_InputUnchanged ==
    [][(fn = "compileToNumscript") => (arg' = arg \/ pc' = "idle")]_vars

\* A script whose block was re-sorted, returned for an intent whose
\* split_rules still stand in the order given.
C23_Witness ==
    /\ fn = "compileToNumscript"
    /\ pc = "returned"
    /\ arg.postings[1].destination_type = "split"
    /\ arg.postings[1].split_rules.some
    /\ Len(arg.postings[1].split_rules.v) = 2
    /\ arg.postings[1].split_rules.v[1].amount_mode = "remaining"
    /\ arg.postings[1].split_rules.v[2].amount_mode = "fraction"
    /\ LET ls == lines(sendStatements(ret)[1]) IN
       /\ ls[4] = << " ", " ", " ", " ", "5", "%", " ", "t", "o", " ", "@", "a" >>
       /\ isRemainingLine(ls[5])

(***************************************************************************)
(* C27, as stated: in the rendered block the fraction and max rules stand  *)
(* in their input order (a max rule given before a fraction rule stays     *)
(* before it), followed by the remaining rules in their input order.       *)
(***************************************************************************)
isFractionRule(r) ==
    r.amount_mode = "fraction"
isRemainingRule(r) ==
    r.amount_mode = "remaining"
isShareRule(r) ==
    r.amount_mode \in {"fraction", "max"}

renderedRules(rules, asset) ==
    [i \in 1..Len(rules) |-> formatSplitRule(rules[i], asset)]

C27_ShareRulesKeepInputOrder ==
    (fn = "formatSplitDestination" /\ Len(arg.rules) > 0)
    => ruleLines(ret)
         = renderedRules(SelectSeq(arg.rules, isShareRule), arg.asset)
             \o renderedRules(SelectSeq(arg.rules, isRemainingRule), arg.asset)

(***************************************************************************)
(* C27, amended: the sort is stable for the order each variant gives the   *)
(* modes.  First variant: fraction and max rules together in input order,  *)
(* then the remaining rules in input order.  Second variant: the fraction  *)
(* rules in input order, then the max rules in input order, then the       *)
(* remaining rules in input order.                                         *)
(***************************************************************************)
C27_StableWithinEqualRank ==
    (fn = "formatSplitDestination" /\ Len(arg.rules) > 0)
    => IF variant = 1
         THEN ruleLines(ret)
                = renderedRules(SelectSeq(arg.rules, isShareRule), arg.asset)
                    \o renderedRules(SelectSeq(arg.rules, isRemainingRule), arg.asset)
         ELSE ruleLines(ret)
                = renderedRules(SelectSeq(arg.rules, isFractionRule), arg.asset)
                    \o renderedRules(SelectSeq(arg.rules, isMaxRule), arg.asset)
                    \o renderedRules(SelectSeq(arg.rules, isRemainingRule), arg.asset)

\* Second variant: max @b, fraction @a, max @a is rendered fraction @a,
\* max @b, max @a.
C27_Witness ==
    /\ fn = "formatSplitDestination"
    /\ variant = 2
    /\ Len(arg.rules) = 3
    /\ arg.rules[1] = Rule(Acc_at_b, "max", Val_9)
    /\ arg.rules[2] = Rule(Acc_a, "fraction", Val_5)
    /\ arg.rules[3] = Rule(Acc_a, "max", Val_9)
    /\ arg.asset = USD2
    /\ ruleLines(ret)
         = << << " ", " ", " ", " ", "5", "%", " ", "t", "o", " ", "@", "a" >>,
              << " ", " ", " ", " ", "m", "a", "x", " ", "[", "U", "S", "D", "/", "2",
                 " ", "9", "]", " ", "t", "o", " ", "@", "b" >>,
              << " ", " ", " ", " ", "m", "a", "x", " ", "[", "U", "S", "D", "/", "2",
                 " ", "9", "]", " ", "t", "o", " ", "@", "a" >> >>

(***************************************************************************)
(* Concurrent calls: what a call has produced against the same call        *)
(* running alone.                                                          *)
(***************************************************************************)
alone(c) ==
    compileToNumscript(calls[c].intent)

\* The outcome of the call of c, once it has one, is the outcome of the
\* same call running alone; while it runs, its statements are its own.
sameAsAlone(c) ==
    /\ calls[c].pc = "returned"
         => (~alone(c).threw /\ calls[c].ret = alone(c).ret /\ calls[c].error = "")
    /\ calls[c].pc = "thrown"
         => (alone(c).threw /\ calls[c].error = alone(c).error /\ calls[c].ret = <<>>)
    /\ calls[c].pc = "map"
         => \A i \in 1..Len(calls[c].postings) :
              calls[c].postings[i] = renderedPosting(calls[c].intent.postings[i])

finished(c) ==
    calls[c].pc \in {"returned", "thrown"}

\* The warnings the call of c has written so far.
written(c) ==
    IF calls[c].pc = "idle" THEN 0
    ELSE Len(flatten([i \in 1..(calls[c].idx - 1) |->
                        IF variant = 1
                          THEN compilePosting(calls[c].intent.postings[i]).console
                          ELSE compilePosting2(calls[c].intent.postings[i]).console]))

RECURSIVE writtenBy(_)
writtenBy(S) ==
    IF S = {} THEN 0
    ELSE LET c == CHOOSE d \in S : TRUE IN written(c) + writtenBy(S \ {c})

(***************************************************************************)
(* C24, as stated: under every interleaving each call returns or raises    *)
(* what it does alone, equal intents give equal outcomes, and no call      *)
(* writes state shared with another call (the console stays untouched).    *)
(***************************************************************************)
C24_IndependentNoSharedState ==
    /\ \A c \in Callers : sameAsAlone(c)
    /\ \A c, d \in Callers :
         (finished(c) /\ finished(d) /\ calls[c].intent = calls[d].intent)
           => (calls[c].pc = calls[d].pc /\ calls[c].ret = calls[d].ret
                 /\ calls[c].error = calls[d].error)
    /\ console = <<>>

(***************************************************************************)
(* C24, amended: under every interleaving each call returns or raises what *)
(* it does alone and equal intents give equal outcomes; the one thing the  *)
(* calls share is the console, which a call only appends to: it holds the  *)
(* mixed-split warnings of all calls, one per mixed split block rendered   *)
(* by the first variant, and nothing else.                                 *)
(***************************************************************************)
C24_IndependentOutcomesSharedConsole ==
    /\ \A c \in Callers : sameAsAlone(c)
    /\ \A c, d \in Callers :
         (finished(c) /\ finished(d) /\ calls[c].intent = calls[d].intent)
           => (calls[c].pc = calls[d].pc /\ calls[c].ret = calls[d].ret
                 /\ calls[c].error = calls[d].error)
    /\ Len(console) = writtenBy(Callers)
    /\ \A i \in 1..Len(console) : console[i] = WarnMixed
    /\ variant = 2 => console = <<>>

\* Caller A has its script, with a mixed split block, while the call of B,
\* which also rendered a mixed split block, is still running: the console
\* holds the warnings of both.
C24_Witness ==
    /\ variant = 1
    /\ calls["A"].pc = "returned"
    /\ Len(calls["A"].intent.postings) = 1
    /\ isMixedSplit(calls["A"].intent.postings[1])
    /\ calls["A"].ret = alone("A").ret
    /\ countSends(calls["A"].ret) = 1
    /\ calls["B"].pc = "map"
    /\ calls["B"].idx = 2
    /\ Len(calls["B"].intent.postings) = 2
    /\ isMixedSplit(calls["B"].intent.postings[1])
    /\ console = << WarnMixed, WarnMixed >>

(***************************************************************************)
(* C25: the generate endpoint answers success (success = true,             *)
(* mcpValidation.valid = true) only for the script it handed to the        *)
(* checker, and only when the checker ran to its end and its answer held a *)
(* list of diagnostics without one of severity Error; never after a        *)
(* timeout, a checker that could not be started, or an answer from which   *)
(* no diagnostics could be read.                                           *)
(***************************************************************************)
succeeded ==
    response.some /\ response.v.success

checkedClean ==
    /\ validation.settled
    /\ validation.by = "close"
    /\ validation.line.some
    /\ validation.line.v.kind \in {"text", "errors"}
    /\ \A i \in 1..Len(validation.line.v.diagnostics) :
         validation.line.v.diagnostics[i].severity # "Error"

C25_SuccessOnlyAfterCleanCheck ==
    succeeded
    => /\ checkedClean
       /\ response.v.mcpValidation.valid
       /\ current.some /\ response.v.numscript = current.v.numscript

(***************************************************************************)
(* C26: for a request that reaches the loop, the generate endpoint makes   *)
(* at most MAX_RETRIES = 5 attempts; the first attempt gets the original   *)
(* prompt and every later one a prompt holding the error of the attempt    *)
(* before it; after a failed attempt below the fifth the next attempt      *)
(* starts; the handler answers at once when validateWithMCP reports valid, *)
(* with attempts = the number of that attempt; when no attempt was valid   *)
(* it answers 422 with attempts = 5 and the last error; it always answers, *)
(* and does nothing after it answered.                                     *)
(***************************************************************************)
attemptsBounded ==
    attempt <= MAX_RETRIES

errorFedBack ==
    gpc = "generate"
    => /\ sent.some
       /\ attempt = 1 => (sent.v.kind = "original" /\ lastError = Absent)
       /\ attempt > 1 => /\ sent.v.kind \in {"fix", "schemaFix", "retry"}
                         /\ lastError.some
                         /\ join(sent.v.feedback, << "; " >>) = lastError.v

answersOfTheLoop ==
    (response.some /\ attempt >= 1)
    => /\ gpc = "responded"
       /\ response.v.status \in {200, 422}
       /\ response.v.status = 200
            => (response.v.success /\ response.v.attempts = attempt
                  /\ validation.settled /\ validation.valid)
       /\ response.v.status = 422
            => (~response.v.success /\ response.v.attempts = 5 /\ attempt = MAX_RETRIES
                  /\ lastError.some /\ response.v.lastError = lastError
                  /\ ~(validation.settled /\ validation.valid))

C26_RetryLoop ==
    /\ [](attemptsBounded /\ errorFedBack /\ answersOfTheLoop)
    /\ [][ /\ (gpc = "validated" /\ validation.valid)
              => (gpc' = "responded" /\ attempt' = attempt)
           /\ gpc = "responded" => UNCHANGED << attempt, response >> ]_vars
    /\ \A n \in 1..(MAX_RETRIES - 1) :
         (gpc = "loop" /\ attempt = n) ~> (gpc = "generate" /\ attempt = n + 1)
    /\ <>(gpc = "responded")

\* The third attempt is the first valid one, after a schema error and a
\* script the checker rejected.
C26_Witness ==
    /\ succeeded
    /\ response.v.attempts = 3
    /\ attempt = 3
    /\ sent.some /\ sent.v.kind = "fix"
    /\ lastError = Present(<< "Error", ": ", "TypeMismatch" >>)
    /\ checkedClean

(***************************************************************************)
(* Reading balances.  Sums and differences here are those of integers,     *)
(* not of doubles.                                                         *)
(***************************************************************************)
\* The balances the caller sent ({} when the request has none).
sentValue ==
    IF body.some THEN body.v ELSE << >>

\* The balance of an account in an asset; 0 where none is recorded.
balanceIn(value, account, asset) ==
    IF account \in DOMAIN value /\ asset \in DOMAIN value[account]
      THEN value[account][asset] ELSE Num(0, 0)

RECURSIVE sumOver(_, _, _)
sumOver(value, accounts, asset) ==
    IF accounts = {} THEN Num(0, 0)
    ELSE LET a    == CHOOSE x \in accounts : TRUE
             rest == sumOver(value, accounts \ {a}, asset)
             b    == balanceIn(value, a, asset)
         IN  Num(b.h + rest.h, b.l + rest.l)

total(value, asset) ==
    sumOver(value, DOMAIN value, asset)

computing ==
    spc \in {"loop", "returned", "responded"}

(***************************************************************************)
(* C28: computeFinalBalances conserves value.  For every asset the final   *)
(* balances of all accounts sum to what the initial balances sum to, after *)
(* every posting applied; a posting lowers the balance of its source by    *)
(* its amount and raises that of its destination by the same amount, a     *)
(* posting from an account to itself leaves that balance as it was, and no *)
(* other balance changes.                                                  *)
(***************************************************************************)
C28_ValueConserved ==
    /\ [](computing => \A asset \in Assets :
                         total(valueOf(finalBalances), asset) = total(sentValue, asset))
    /\ [][ (spc = "loop" /\ applied' = applied + 1)
           => LET p      == lastApplied'.v
                  amount == parseInt(p.amount)
                  old    == valueOf(finalBalances)
                  new    == [account \in DOMAIN finalBalances' |->
                               heap'[finalBalances'[account]]]
                  src0   == balanceIn(old, p.source, p.asset)
                  dst0   == balanceIn(old, p.destination, p.asset)
              IN  /\ ~isNaN(amount)
                  /\ IF p.source = p.destination
                       THEN balanceIn(new, p.source, p.asset) = src0
                       ELSE /\ balanceIn(new, p.source, p.asset)
                                 = Num(src0.h - amount.h, src0.l - amount.l)
                            /\ balanceIn(new, p.destination, p.asset)
                                 = Num(dst0.h + amount.h, dst0.l + amount.l)
                  /\ \A account \in Accounts, asset \in Assets :
                       (asset # p.asset \/ account \notin {p.source, p.destination})
                         => balanceIn(new, account, asset) = balanceIn(old, account, asset)
         ]_vars

(***************************************************************************)
(* C29: computeFinalBalances leaves its initialBalances argument as it     *)
(* was: at every point of the computation, and in the response, the        *)
(* initial balances are the ones the caller sent; and an account whose     *)
(* final balances differ from its initial ones is the source or the        *)
(* destination of a posting.                                               *)
(***************************************************************************)
balancesOf(value, account) ==
    IF account \in DOMAIN value THEN Present(value[account]) ELSE Absent

C29_InitialBalancesUntouched ==
    /\ spc # "idle" => valueOf(balances) = sentValue
    /\ simResponse.some => simResponse.v.initialBalances = sentValue
    /\ computing
         => \A account \in Accounts :
              balancesOf(valueOf(finalBalances), account) # balancesOf(sentValue, account)
                => account \in touched

\* a and b hold 7 each; 3 went from a to b, both present in the request.
C29_Witness ==
    /\ spc = "responded"
    /\ body = Present([account \in {"a", "b"} |-> [asset \in {"USD/2"} |-> Num(0, 7)]])
    /\ applied = 1
    /\ lastApplied = Present([source |-> "a", destination |-> "b", asset |-> "USD/2",
                              amount |-> << "3" >>])
    /\ simResponse.v.initialBalances
         = [account \in {"a", "b"} |-> [asset \in {"USD/2"} |-> Num(0, 7)]]
    /\ simResponse.v.finalBalances
         = [account \in {"a", "b"} |->
              [asset \in {"USD/2"} |-> IF account = "a" THEN Num(0, 4) ELSE Num(0, 10)]]

(***************************************************************************)
(* Reading the conversation with the child.                                *)
(***************************************************************************)
count(messages, m) ==
    Cardinality({ i \in 1..Len(messages) : messages[i] = m })

\* The whole initialize response is in stdout.
initReceived ==
    \E i \in 1..(Len(stdout) - 1) : stdout[i] = "I1" /\ stdout[i + 1] = "I2"

Outcomes ==
    {"result", "MCP error", "spawn error", "exit", "timeout"}

(***************************************************************************)
(* C30: in callMCPEvaluate, however the child's stdout is cut into chunks: *)
(* the initialized notification and the evaluate tool call are written to  *)
(* the child at most once each, the notification first, and only when the  *)
(* initialize response has been received; when a result settles the        *)
(* promise both were written exactly once before; and the promise is       *)
(* settled, once, by one of: result, MCP error, spawn error, non-zero      *)
(* exit, timeout.                                                          *)
(***************************************************************************)
C30_WrittenOnceSettledOnce ==
    /\ [](epc = "called"
            => /\ count(stdin, "initialized") <= 1
               /\ count(stdin, "evaluate") <= 1
               /\ stdin \in { << "initialize" >>,
                              << "initialize", "initialized", "evaluate" >> }
               /\ (count(stdin, "evaluate") > 0 => initReceived)
               /\ (promise.by = "result"
                     => stdin = << "initialize", "initialized", "evaluate" >>)
               /\ (promise.settled => promise.by \in Outcomes))
    /\ [][promise.settled => promise' = promise]_vars
    /\ (epc = "called") ~> promise.settled
====
